---- MODULE Spec2Model ----
(***************************************************************************)
(* The syscall dispatch core and task-lifecycle engine of the kernel:      *)
(*   src/src/syscall.rs      handle_syscall and the three stubs            *)
(*   src/core/src/task.rs    TaskExt, clone_task, wait_pid, exec, time     *)
(* Each user task is a process of the state machine.  pc[t] is the place   *)
(* the task has reached; the scheduler may interleave the tasks at every   *)
(* step, the kernel being preemptive.                                      *)
(***************************************************************************)
EXTENDS Integers, Sequences, FiniteSets, TLC

\* ------------------------------------------------------------- bounds
\* Highest task id the id counter hands out.
MaxTaskId == 5
\* The monotonic clock stops advancing here.
MaxClock == 3
\* Syscalls the user tasks issue in one run, all tasks together.
MaxTraps == 4
\* The longest user buffer handed to getdents64.
MaxBufLen == 64
\* Rlimit sets in one run, all tasks together.
MaxRlimitSets == 2
\* Syscalls in one run of a parent that clones three children and waits.
MaxWaitTraps == 6
\* Syscalls in one run of a task and its child that both clone and wait.
MaxFamilyTraps == 5

\* ---------------------------------------------------------- constants
\* TaskExt::new: parent_id: AtomicU64::new(1)
INIT_PARENT_ID == 1
\* Width of i32 (exit codes, *exit_code_ptr).
I32Bits == 32
\* exit_code << 8
StatusShift == 8
\* flags & !0x3f
CloneSignalMask == 63
\* new_uctx.set_ip(current_ip + 4)
InsnLen == 4
\* bits: [usize; 2], a usize of 64 bits
WordSize == 64
\* (1..32).contains(&signal)
SignalLimit == 32
\* size_of::<u64>() and size_of::<i64>(), size_of::<u16>(), size_of::<u8>()
U64Size == 8
U16Size == 2
U8Size == 1
\* DirEnt::new(1, ..): d_ino
DirEntIno == 1
\* FileType::Dir, FileType::Reg, FileType::Unknown
FileTypeDir == 4
FileTypeReg == 8
FileTypeUnknown == 0
\* const AT_REMOVEDIR: usize = 0x200
AT_REMOVEDIR == 512
\* rlim_cur: 65535, rlim_max: 65535
RLIM_DEFAULT == 65535
\* axconfig::plat::USER_HEAP_BASE (in pages)
USER_HEAP_BASE == 4

\* The task that spawn_user_task creates: the kernel task that calls it
\* holds the ids below.
FirstUserId == INIT_PARENT_ID + 1
Tasks == FirstUserId..MaxTaskId

\* Build targets: one whose trap handler returns to the trapping
\* instruction, one whose trap handler does not.
Archs == {"riscv64", "x86_64"}
\* Every target clone_task has a cfg for.
CloneArchs == {"riscv64", "loongarch64", "x86_64", "aarch64"}

\* Program images exec can be asked to load (by index), and what they map.
Programs == {1, 2}
NoImage == 0
EntryOf(prog) == prog * 4096
StackOf(prog) == prog * 65536

\* Exit codes a task may pass to exit; the last one overflows i32 << 8.
ExitCodes == {7, 8388608}
\* Initial content of the user word exit_code_ptr points at.
StatusUnset == 0 - 1

\* ------------------------------------------------------------ helpers
Pow2(n) == 2 ^ n

\* exit_code << 8 on i32: the high 8 bits are shifted out, bit 23 becomes
\* the sign.
Shl8(c) ==
    LET low == c % Pow2(I32Bits - StatusShift)
    IN  IF low >= Pow2(I32Bits - StatusShift - 1)
        THEN (low - Pow2(I32Bits - StatusShift)) * Pow2(StatusShift)
        ELSE low * Pow2(StatusShift)

Range(s) == {s[i] : i \in 1..Len(s)}

\* Vec::remove(index), index counted from 0.
RemoveAt(s, index) ==
    [i \in 1..(Len(s) - 1) |-> IF i <= index THEN s[i] ELSE s[i + 1]]

\* LinuxResult<isize>: ok(v) or err(kind)
Ok(v) == [ok |-> TRUE, val |-> v, err |-> "none"]
Err(e) == [ok |-> FALSE, val |-> 0, err |-> e]

\* LinuxError::code(): the POSIX errno of an error kind.
code(e) ==
    CASE e = "ENOENT" -> 2
      [] e = "EBADF" -> 9
      [] e = "ECHILD" -> 10
      [] e = "ENOMEM" -> 12
      [] e = "EFAULT" -> 14
      [] e = "EEXIST" -> 17
      [] e = "ENOTDIR" -> 20
      [] e = "EISDIR" -> 21
      [] e = "EINVAL" -> 22
      [] e = "ENOSYS" -> 38
      [] e = "ENOTSUP" -> 95

\* ---------------------------------------------------------- variables
VARIABLES
    arch,           \* the build target
    panicked,       \* the kernel has aborted (a panic in kernel context)
    next_id,        \* the scheduler's task id counter
    clock,          \* monotonic_time_nanos()
    traps,          \* syscalls issued so far
    pc,             \* where each task is
    exit_code,      \* scheduler: the exit code of an exited task
    proc_id,        \* TaskExt.proc_id
    parent_id,      \* TaskExt.parent_id
    children,       \* TaskExt.children (Vec of task handles, here ids)
    uctx,           \* TaskExt.uctx
    task_name,      \* the scheduler task's name
    aspace_rc,      \* Arc::strong_count(&TaskExt.aspace)
    aspace_locked,  \* TaskExt.aspace mutex is held
    uareas,         \* the user-area mappings of the task's address space
    time,           \* TaskExt.time
    tf,             \* the trap frame saved on the kernel stack
    cur,            \* the syscall being dispatched and its arguments
    result,         \* the handler's LinuxResult
    retval,         \* what the dispatch hands back to user mode
    core_res,       \* what clone_task / exec last returned (AxResult)
    new_task,       \* clone_task: the task being created
    wl,             \* wait_pid: its locals
    wait_res,       \* what wait_pid last returned
    status_word,    \* the user word wait's exit_code_ptr points at, while
                    \* the dispatch that was handed it lasts
    trace,          \* history: the boundary events of the current dispatch
    first_cross,    \* history: clock and time sum at the first crossing
    heap_bottom,    \* TaskExt.heap_bottom
    heap_top,       \* TaskExt.heap_top
    ns_slot,        \* TaskExt.ns: the cell each resource slot resolves to
    ns_val,         \* the inner value of each namespace cell
    sigset,         \* a SigSet
    sig_mask,       \* the SigSet handed to dequeue
    sig_ret,        \* the last SigSet operation, its argument and result
    dir,            \* the entries of an open directory
    dir_pos,        \* the directory's iterator: entries read so far
    ubuf,           \* the user memory at and after getdents64's buf
    gd,             \* the last getdents64 call: its arguments and result
    fs,             \* the files and directories of the file system
    ul,             \* the last unlink / unlinkat call and its result
    rlimits,        \* TaskExt.rlimit_as .. rlimit_stack
    rl_ret          \* history: the last rlimit set, and the sets so far

sched_vars == <<arch, panicked, next_id, traps, pc, exit_code>>
ext_vars == <<proc_id, parent_id, children, uctx, task_name>>
mm_vars == <<aspace_rc, aspace_locked, uareas>>
time_vars == <<clock, time, first_cross>>
disp_vars == <<tf, cur, result, retval, trace>>
life_vars == <<core_res, new_task, wl, wait_res, status_word>>
heap_vars == <<heap_bottom, heap_top>>
ns_vars == <<ns_slot, ns_val>>
sig_vars == <<sigset, sig_mask, sig_ret>>
dents_vars == <<dir, dir_pos, ubuf, gd>>
unlink_vars == <<fs, ul>>
\* What the task lifecycle and the dispatcher leave alone.
lib_vars == <<sig_vars, dents_vars, unlink_vars>>
rl_vars == <<rlimits, rl_ret>>
aux_vars == <<heap_vars, ns_vars, lib_vars, rl_vars>>
task_vars == <<sched_vars, ext_vars, mm_vars, time_vars, disp_vars, life_vars>>
vars == <<task_vars, aux_vars>>

\* -------------------------------------------------------- TimeStat
\* TimeStat::new(): both counters zero; a task's first boundary crossing
\* is a trap from user mode.
TimeStatNew == [user_ns |-> 0, kernel_ns |-> 0, last |-> 0, side |-> "USER"]

\* Adds now - last to user_ns, sets side and last.
switch_into_kernel_mode(ts, now) ==
    [user_ns |-> ts.user_ns + (now - ts.last),
     kernel_ns |-> ts.kernel_ns,
     last |-> now,
     side |-> "KERNEL"]

\* Adds now - last to kernel_ns, sets side and last.
switch_into_user_mode(ts, now) ==
    [user_ns |-> ts.user_ns,
     kernel_ns |-> ts.kernel_ns + (now - ts.last),
     last |-> now,
     side |-> "USER"]

\* A plausible slip: the tick handed on in the wrong unit (micros for nanos).
time_stat_from_user_to_kernel_WrongUnit(ts, current_tick) ==
    switch_into_kernel_mode(ts, current_tick \div 2)

\* TaskExt::time_stat_from_user_to_kernel(current_tick)
time_stat_from_user_to_kernel(ts, current_tick) ==
    switch_into_kernel_mode(ts, current_tick)

\* TaskExt::time_stat_from_kernel_to_user(current_tick)
time_stat_from_kernel_to_user(ts, current_tick) ==
    switch_into_user_mode(ts, current_tick)

TimeSum(ts) == ts.user_ns + ts.kernel_ns

\* History of the first boundary crossing of a task: the monotonic time
\* at it, and the sum of the counters after it.
NoCross == [seen |-> FALSE, at |-> 0, sum |-> 0]
Crossed(fc, ts, now) ==
    IF fc.seen THEN fc ELSE [seen |-> TRUE, at |-> now, sum |-> TimeSum(ts)]

\* ------------------------------------------------------------- Init
NoUctx == [ip |-> 0, sp |-> 0, rv |-> 0]
NoCur == [sys |-> "none", a0 |-> 0, a1 |-> 0]
NoWait == [idx |-> 0, status |-> "NotExist", exit_task_id |-> 0, answer_id |-> 0,
           yields |-> 0, kids0 |-> <<>>, dead0 |-> {}]
\* AxResult<u64> / Result<u64, WaitStatus>
AxOk(v) == [kind |-> "Ok", val |-> v, err |-> "none"]
AxErr(e) == [kind |-> "Err", val |-> 0, err |-> e]
NoRes == [kind |-> "none", val |-> 0, err |-> "none"]

\* UspaceContext::new(entry, ustack_top, arg0)
UspaceContextNew(entry, sp, arg0) == [ip |-> entry, sp |-> sp, rv |-> arg0]

\* Task names, as sequences of numbers: "userboot" of spawn_user_task, the
\* program name exec sets, and id_name() of a task, Task(id, name), which
\* clone_task gives the child.
NoName == <<>>
Userboot == <<0>>
ProgramName(prog) == <<prog>>
id_name(id, name) == <<id>> \o name

BootProgram == CHOOSE p \in Programs : \A q \in Programs : p <= q

\* TaskExt::new: heap_bottom and heap_top both start at the heap_bottom
\* it is given.
TaskExtNewHeap(hb) == [bottom |-> hb, top |-> hb]

\* The Rlimit fields of TaskExt, and the limit kind each holds.
RlimitFields == {"rlimit_as", "rlimit_asc", "rlimit_cpu", "rlimit_data", "rlimit_fsize",
                 "rlimit_nofile", "rlimit_stack"}
RlimitKinds == {"AS", "CORE", "CPU", "DATA", "FSIZE", "NOFILE", "STACK"}
Rlimit(c, m) == [rlim_cur |-> c, rlim_max |-> m]
\* impl Default for Rlimit
RlimitDefault == Rlimit(RLIM_DEFAULT, RLIM_DEFAULT)
\* TaskExt::new: every rlimit field is Cell::new(Rlimit::default()).
TaskExtNewRlimits == [f \in RlimitFields |-> RlimitDefault]
NoRlimits == [f \in RlimitFields |-> Rlimit(0, 0)]
NoRlimitOp == [task |-> 0, kind |-> "none", val |-> Rlimit(0, 0), before |-> NoRlimits,
               count |-> 0]

\* The namespaced resources, and whose namespaces there are: the kernel
\* task's (KERNEL_NS_BASE) and one per TaskExt.
NsRes == {"FD_TABLE", "CURRENT_DIR", "CURRENT_DIR_PATH"}
Owners == {INIT_PARENT_ID} \cup Tasks
NoNs == [r \in NsRes |-> 0]
\* The inner values of the global namespace.
GlobalNs == [r \in NsRes |-> 0]
\* Inner values a resource may take.
NsValues == [NsRes -> {0, 1}]

\* RES.copy_inner() in task cr: a copy of the inner value its namespace
\* resolves RES to.
copy_inner(slots, vals, cr, r) == vals[slots[cr][r]][r]

\* A plausible slip: the new task's slots resolve to its creator's cells, a
\* shared handle where a copy was meant.
ns_init_new_Shared(slots, vals, c, cr) ==
    [slot |-> slots[cr],
     val |-> [r \in NsRes |-> copy_inner(slots, vals, cr, r)]]

\* TaskExt::ns_init_new on the new task c, called in task cr: each slot of
\* c's own thread-local namespace is seeded with copy_inner().
ns_init_new(slots, vals, c, cr) ==
    [slot |-> [r \in NsRes |-> c],
     val |-> [r \in NsRes |-> copy_inner(slots, vals, cr, r)]]

\* Before the first spawn_user_task only the kernel task has a namespace:
\* KERNEL_NS_BASE, a copy of the global namespace holding g.
KernelSlots == [o \in Owners |-> IF o = INIT_PARENT_ID THEN [r \in NsRes |-> o] ELSE NoNs]
KernelVals(g) == [o \in Owners |-> IF o = INIT_PARENT_ID THEN g ELSE NoNs]

\* SigSet, bits as the sets of the positions that are 1.
SigSetEmpty == [bits |-> <<{}, {}>>]
\* What a SigSet operation returned: a bool, or an Option<u32>.
SigRet(b, v) == [some |-> b, val |-> v]
NoSigOp == [op |-> "none", arg |-> 0, ret |-> SigRet(FALSE, 0), before |-> SigSetEmpty,
            mask0 |-> SigSetEmpty]
NoDents == [called |-> FALSE, len |-> 0, bufok |-> TRUE, fdok |-> TRUE, addr |-> 0,
            build |-> "release", res |-> Ok(0), panicked |-> FALSE, pos0 |-> 0,
            reads |-> 0, emitted |-> <<>>, dropped |-> <<>>, log |-> <<>>,
            pc |-> "idle", off |-> 0, taken |-> {}, taken0 |-> 0]
NoFs == [files |-> {}, dirs |-> {}]
NoUnlink == [op |-> "none", dir_fd |-> 0, pathok |-> TRUE, path |-> "", flags |-> 0,
             res |-> Ok(0), fs0 |-> NoFs]

\* The state after spawn_user_task(aspace, uctx, heap_bottom) has made the
\* first user task: TaskExt::new and spawn_task.  The caller of
\* spawn_user_task may keep a handle on the address space it passes.
InitTaskOn(archs, g) ==
    /\ arch \in archs
    /\ panicked = FALSE
    /\ next_id = FirstUserId + 1
    /\ clock = 0
    /\ traps = 0
    /\ pc = [t \in Tasks |-> IF t = FirstUserId THEN "entry" ELSE "none"]
    /\ exit_code = [t \in Tasks |-> 0]
    /\ proc_id = [t \in Tasks |-> IF t = FirstUserId THEN FirstUserId ELSE 0]
    /\ parent_id = [t \in Tasks |-> INIT_PARENT_ID]
    /\ children = [t \in Tasks |-> <<>>]
    /\ uctx = [t \in Tasks |->
                 IF t = FirstUserId
                 THEN UspaceContextNew(EntryOf(BootProgram), StackOf(BootProgram), 0)
                 ELSE NoUctx]
    /\ task_name = [t \in Tasks |-> IF t = FirstUserId THEN Userboot ELSE NoName]
    /\ \E rc \in {1, 2} :
         aspace_rc = [t \in Tasks |-> IF t = FirstUserId THEN rc ELSE 0]
    /\ aspace_locked = [t \in Tasks |-> FALSE]
    /\ uareas = [t \in Tasks |-> IF t = FirstUserId THEN BootProgram ELSE NoImage]
    /\ time = [t \in Tasks |-> TimeStatNew]
    /\ tf = [t \in Tasks |-> NoUctx]
    /\ cur = [t \in Tasks |-> NoCur]
    /\ result = [t \in Tasks |-> Ok(0)]
    /\ retval = [t \in Tasks |-> 0]
    /\ core_res = [t \in Tasks |-> NoRes]
    /\ new_task = [t \in Tasks |-> 0]
    /\ wl = [t \in Tasks |-> NoWait]
    /\ wait_res = [t \in Tasks |-> NoRes]
    /\ status_word = [t \in Tasks |-> StatusUnset]
    /\ trace = [t \in Tasks |-> <<>>]
    /\ first_cross = [t \in Tasks |-> NoCross]
    /\ heap_bottom = [t \in Tasks |->
                        IF t = FirstUserId THEN TaskExtNewHeap(USER_HEAP_BASE).bottom
                        ELSE 0]
    /\ heap_top = [t \in Tasks |->
                     IF t = FirstUserId THEN TaskExtNewHeap(USER_HEAP_BASE).top ELSE 0]
    /\ rlimits = [t \in Tasks |->
                    IF t = FirstUserId THEN TaskExtNewRlimits ELSE NoRlimits]
    /\ rl_ret = NoRlimitOp
    /\ ns_slot = [KernelSlots EXCEPT ![FirstUserId] =
                     ns_init_new(KernelSlots, KernelVals(g), FirstUserId,
                                 INIT_PARENT_ID).slot]
    /\ ns_val = [KernelVals(g) EXCEPT ![FirstUserId] =
                    ns_init_new(KernelSlots, KernelVals(g), FirstUserId,
                                INIT_PARENT_ID).val]

InitTask(g) == InitTaskOn(Archs, g)

\* No SigSet operation, getdents64 or unlink has been called.
SigIdle ==
    /\ sigset = SigSetEmpty
    /\ sig_mask = SigSetEmpty
    /\ sig_ret = NoSigOp
DentsIdle ==
    /\ dir = <<>>
    /\ dir_pos = 0
    /\ ubuf = <<>>
    /\ gd = NoDents
UnlinkIdle ==
    /\ fs = NoFs
    /\ ul = NoUnlink

Init == InitTask(GlobalNs) /\ SigIdle /\ DentsIdle /\ UnlinkIdle

\* ------------------------------------------------------- scheduler
\* A plausible slip: the state compared with the wrong variant, so that an
\* exited task is never seen as Exited.
TaskStateNeverExited(t) ==
    CASE pc[t] = "none" -> "None"
      [] OTHER -> "Ready"

\* TaskState of a task handle, as child.state() reads it.
TaskState(t) ==
    CASE pc[t] = "none" -> "None"
      [] pc[t] = "dead" -> "Exited"
      [] OTHER -> "Ready"

\* The entry closure of a new task: uctx.enter_uspace(kstack_top).
EnterUspace(t) ==
    /\ ~panicked
    /\ pc[t] = "entry"
    /\ pc' = [pc EXCEPT ![t] = "user"]
    /\ UNCHANGED <<aux_vars, arch, panicked, next_id, traps, exit_code>>
    /\ UNCHANGED <<ext_vars, mm_vars, time_vars, disp_vars, life_vars>>

\* monotonic_time_nanos() advances.
Tick ==
    /\ ~panicked
    /\ clock < MaxClock
    /\ clock' = clock + 1
    /\ UNCHANGED <<time, first_cross>>
    /\ UNCHANGED <<aux_vars, sched_vars, ext_vars, mm_vars, disp_vars, life_vars>>

\* ------------------------------------------------------ dispatcher
\* The arms of handle_syscall's match, in source order; cfg names the one
\* target an arm is compiled for.  The first arm that matches is taken.
SyscallTable == <<
    [sys |-> "access",    handler |-> "sys_access",         cfg |-> "x86_64"],
    [sys |-> "faccessat", handler |-> "sys_faccessat",      cfg |-> "any"],
    [sys |-> "read",      handler |-> "sys_read",           cfg |-> "any"],
    [sys |-> "nanosleep", handler |-> "stub_bypass",        cfg |-> "any"],
    [sys |-> "exit",      handler |-> "sys_exit",           cfg |-> "any"],
    [sys |-> "clone",     handler |-> "sys_clone",          cfg |-> "any"],
    [sys |-> "wait4",     handler |-> "sys_wait4",          cfg |-> "any"],
    [sys |-> "execve",    handler |-> "sys_execve",         cfg |-> "any"],
    [sys |-> "access",    handler |-> "stub_bypass",        cfg |-> "x86_64"],
    [sys |-> "faccessat", handler |-> "stub_bypass",        cfg |-> "any"],
    [sys |-> "sysinfo",   handler |-> "stub_unimplemented", cfg |-> "any"] >>

\* Syscall numbers the targets define (Sysno::access exists on x86_64 only);
\* tkill stands for the numbers the table has no arm for.
Sysnos(a) ==
    {"faccessat", "read", "nanosleep", "exit", "clone", "wait4", "execve",
     "sysinfo", "tkill"} \cup (IF a = "x86_64" THEN {"access"} ELSE {})

ArmMatches(arm, a, sys) == arm.sys = sys /\ arm.cfg \in {"any", a}

\* A plausible slip: every syscall without a handler goes to one stub.
RouteOneStub(a, sys) ==
    LET hits == {i \in 1..Len(SyscallTable) : ArmMatches(SyscallTable[i], a, sys)}
        h == SyscallTable[CHOOSE i \in hits : \A j \in hits : i <= j].handler
    IN  IF hits = {} \/ h \in {"stub_bypass", "stub_unimplemented"}
        THEN "stub_unimplemented" ELSE h

\* match Sysno::from(syscall_num as u32) { ... _ => stub_kill(syscall_num) }
Route(a, sys) ==
    LET hits == {i \in 1..Len(SyscallTable) : ArmMatches(SyscallTable[i], a, sys)}
    IN  IF hits = {}
        THEN "stub_kill"
        ELSE SyscallTable[CHOOSE i \in hits : \A j \in hits : i <= j].handler

\* What user code may pass.  A specification draws the arguments of the
\* syscalls it is about from the whole set and the others from one value.
CloneFlagArgs == {17, 81}
CloneStackArgs == {0, 24}
WaitPidArgs == {0 - 1, 0, FirstUserId + 1, FirstUserId + 2}
WaitPtrArgs == {0, 1}

\* The registers the HAL saves at a trap from a task resumed with ux.
TrapFrameOf(ux) == [ip |-> ux.ip + 8, sp |-> ux.sp - 16, rv |-> 1]

\* The argument registers of the trap frame, read when the handler is
\* called: tf.arg0(), tf.arg1().
ArgsOf(prof, sys) ==
    CASE sys = "clone" ->
           (IF prof = "time" THEN {17} ELSE CloneFlagArgs)
             \X (IF prof = "clone" THEN CloneStackArgs ELSE {24})
      [] sys = "wait4" ->
           (IF prof = "wait" THEN WaitPidArgs ELSE {0 - 1})
             \X (IF prof = "time" THEN {1} ELSE WaitPtrArgs)
      [] sys = "execve" -> (Programs \ {BootProgram}) \X {0}
      [] sys = "exit" -> (IF prof = "time" THEN {7} ELSE ExitCodes) \X {0}
      [] OTHER -> {<<0, 0>>}

\* Results a handler that forwards to another kernel service may produce.
HandlerResults == {Ok(0), Ok(3), Ok(0 - 5), Err("EINVAL"), Err("ENOENT")}

HandlerPcs == {"handler", "clone_spawn", "clone_push", "wait_scan", "wait_post",
               "wait_retry"}
KernelPcs == HandlerPcs \cup {"ret", "sysret"}

\* A plausible slip: the handler is entered without the time switch.
HandleSyscallEntryNoSwitch(t, sys, frame) ==
    /\ ~panicked
    /\ pc[t] = "user"
    /\ traps < MaxTraps
    /\ traps' = traps + 1
    /\ pc' = [pc EXCEPT ![t] = "handler"]
    /\ tf' = [tf EXCEPT ![t] = frame]
    /\ cur' = [cur EXCEPT ![t] = [sys |-> sys, a0 |-> 0, a1 |-> 0]]
    /\ trace' = [trace EXCEPT ![t] = <<>>]
    /\ UNCHANGED <<time, first_cross>>
    /\ UNCHANGED <<aux_vars, arch, panicked, next_id, exit_code, clock, result, retval>>
    /\ UNCHANGED <<ext_vars, mm_vars, life_vars>>

\* handle_syscall, from the trap to the match: the HAL has saved the trap
\* frame; time_stat_from_user_to_kernel().
HandleSyscallEntryWithin(t, sys, frame, budget) ==
    /\ ~panicked
    /\ pc[t] = "user"
    /\ traps < budget
    /\ traps' = traps + 1
    /\ pc' = [pc EXCEPT ![t] = "handler"]
    /\ tf' = [tf EXCEPT ![t] = frame]
    /\ cur' = [cur EXCEPT ![t] = [sys |-> sys, a0 |-> 0, a1 |-> 0]]
    /\ time' = [time EXCEPT ![t] = time_stat_from_user_to_kernel(time[t], clock)]
    /\ first_cross' = [first_cross EXCEPT ![t] = Crossed(first_cross[t], time'[t], clock)]
    /\ trace' = [trace EXCEPT ![t] = <<"u2k">>]
    /\ UNCHANGED <<aux_vars, arch, panicked, next_id, exit_code, clock, result, retval>>
    /\ UNCHANGED <<ext_vars, mm_vars, life_vars>>

\* handle_syscall in a run of at most MaxTraps syscalls.
HandleSyscallEntry(t, sys, frame) == HandleSyscallEntryWithin(t, sys, frame, MaxTraps)

\* clone calls that have not yet drawn their task id.
PendingClones == {t \in Tasks : pc[t] = "handler" /\ cur[t].sys = "clone"}

\* A syscall instruction in user mode.
TrapOf(t, sysnos) ==
    \E sys \in sysnos :
      /\ sys = "clone" => next_id + Cardinality(PendingClones) <= MaxTaskId
      /\ HandleSyscallEntry(t, sys, TrapFrameOf(uctx[t]))

\* The same in a run of at most budget syscalls.
TrapWithin(t, sysnos, budget) ==
    \E sys \in sysnos :
      /\ sys = "clone" => next_id + Cardinality(PendingClones) <= MaxTaskId
      /\ HandleSyscallEntryWithin(t, sys, TrapFrameOf(uctx[t]), budget)

Trap(t) == TrapOf(t, Sysnos(arch))

\* result.unwrap_or_else(|err| -err.code() as _)
Ans(res) == IF res.ok THEN res.val ELSE 0 - code(res.err)

\* The kernel stack frame of the dispatch is gone: its locals with it.
FrameDropped(t) ==
    /\ tf' = [tf EXCEPT ![t] = NoUctx]
    /\ cur' = [cur EXCEPT ![t] = NoCur]
    /\ result' = [result EXCEPT ![t] = Ok(0)]
    /\ retval' = [retval EXCEPT ![t] = 0]
    /\ trace' = [trace EXCEPT ![t] = <<>>]
    /\ status_word' = [status_word EXCEPT ![t] = StatusUnset]
    /\ core_res' = [core_res EXCEPT ![t] = NoRes]
    /\ new_task' = [new_task EXCEPT ![t] = 0]
    /\ wl' = [wl EXCEPT ![t] = NoWait]
    /\ wait_res' = [wait_res EXCEPT ![t] = NoRes]

\* The HAL's trap return: user mode resumes with ans in the return
\* register; user code then owns its registers and its memory again.
TrapReturn(t) ==
    /\ ~panicked
    /\ pc[t] = "sysret"
    /\ pc' = [pc EXCEPT ![t] = "user"]
    /\ FrameDropped(t)
    /\ UNCHANGED <<aux_vars, arch, panicked, next_id, traps, exit_code>>
    /\ UNCHANGED <<ext_vars, mm_vars, time_vars>>

\* A plausible slip: the errno returned without negation.
HandleSyscallExitPositive(t) ==
    /\ ~panicked
    /\ pc[t] = "ret"
    /\ retval' = [retval EXCEPT ![t] = IF result[t].ok THEN result[t].val
                                       ELSE code(result[t].err)]
    /\ time' = [time EXCEPT ![t] = time_stat_from_kernel_to_user(time[t], clock)]
    /\ first_cross' = [first_cross EXCEPT ![t] = Crossed(first_cross[t], time'[t], clock)]
    /\ trace' = [trace EXCEPT ![t] = Append(trace[t], "k2u")]
    /\ pc' = [pc EXCEPT ![t] = "sysret"]
    /\ UNCHANGED <<aux_vars, arch, panicked, next_id, traps, exit_code, clock, tf, cur, result>>
    /\ UNCHANGED <<ext_vars, mm_vars, life_vars>>

\* handle_syscall, after the match: ans, time_stat_from_kernel_to_user(),
\* and the return to the HAL, which resumes user mode with ans.
HandleSyscallExit(t) ==
    /\ ~panicked
    /\ pc[t] = "ret"
    /\ retval' = [retval EXCEPT ![t] = Ans(result[t])]
    /\ time' = [time EXCEPT ![t] = time_stat_from_kernel_to_user(time[t], clock)]
    /\ first_cross' = [first_cross EXCEPT ![t] = Crossed(first_cross[t], time'[t], clock)]
    /\ trace' = [trace EXCEPT ![t] = Append(trace[t], "k2u")]
    /\ pc' = [pc EXCEPT ![t] = "sysret"]
    /\ UNCHANGED <<aux_vars, arch, panicked, next_id, traps, exit_code, clock, tf, cur, result>>
    /\ UNCHANGED <<ext_vars, mm_vars, life_vars>>

\* The handler of the dispatch in progress.
Routed(t, h) == ~panicked /\ pc[t] = "handler" /\ Route(arch, cur[t].sys) = h

\* The handler hands its result to the dispatcher.
Finish(t, res) ==
    /\ result' = [result EXCEPT ![t] = res]
    /\ pc' = [pc EXCEPT ![t] = "ret"]
    /\ trace' = [trace EXCEPT ![t] = Append(trace[t], "handler")]
    /\ UNCHANGED <<aux_vars, arch, panicked, next_id, traps, exit_code, tf, cur, retval>>
    /\ UNCHANGED <<ext_vars, mm_vars, time_vars, life_vars>>

\* axtask::exit(exit_code): the task becomes Exited; control does not return.
AxExit(t, c) ==
    /\ pc' = [pc EXCEPT ![t] = "dead"]
    /\ exit_code' = [exit_code EXCEPT ![t] = c]
    /\ trace' = [trace EXCEPT ![t] = Append(trace[t], "handler")]
    /\ UNCHANGED <<aux_vars, arch, panicked, next_id, traps, tf, cur, result, retval>>
    /\ UNCHANGED <<ext_vars, mm_vars, time_vars, life_vars>>

\* stub_unimplemented: Err(LinuxError::ENOSYS)
StubUnimplemented(t) == Routed(t, "stub_unimplemented") /\ Finish(t, Err("ENOSYS"))

\* stub_bypass: Ok(0)
StubBypass(t) == Routed(t, "stub_bypass") /\ Finish(t, Ok(0))

\* stub_kill: axtask::exit(LinuxError::ENOSYS as _)
StubKill(t) == Routed(t, "stub_kill") /\ AxExit(t, code("ENOSYS"))

\* sys_access, sys_faccessat: warn and Ok(0)
SysAccess(t) ==
    /\ Route(arch, cur[t].sys) \in {"sys_access", "sys_faccessat"}
    /\ Routed(t, Route(arch, cur[t].sys))
    /\ Finish(t, Ok(0))

\* A handler that forwards to a kernel service outside the core.
SysRead(t) == Routed(t, "sys_read") /\ \E res \in HandlerResults : Finish(t, res)

\* sys_exit(code): the task exits with the code.
SysExit(t, prof) ==
    /\ Routed(t, "sys_exit")
    /\ \E args \in ArgsOf(prof, "exit") : AxExit(t, args[1])

\* ------------------------------------------------------------ exec
\* The LinuxError an AxError becomes at the syscall boundary.
LinuxErrorOf(e) ==
    CASE e = "NotFound" -> "ENOENT"
      [] e = "Unsupported" -> "ENOTSUP"
      [] e = "NoMemory" -> "ENOMEM"
      [] e = "BadState" -> "EFAULT"

\* What the VM layer may do under exec: load the image, fail to load it, or
\* fail in unmap_user_areas, which leaves the address space empty.
ExecOutcomes == {"ok", "load_err", "unmap_err"}

ExecUnchanged(rc, st, res) ==
    [res |-> res, uareas |-> st.uareas, name |-> st.name, uctx |-> st.uctx,
     locked |-> FALSE, entered |-> FALSE]

\* exec past the owner check: unmap_user_areas, load_user_app, set_name,
\* drop(aspace), the new uctx, enter_uspace.
exec_sole(rc, st, prog, outcome) ==
    CASE outcome = "unmap_err" ->
           [ExecUnchanged(rc, st, AxErr("BadState")) EXCEPT !.uareas = NoImage]
      [] outcome = "load_err" ->
           [ExecUnchanged(rc, st, AxErr("NotFound")) EXCEPT !.uareas = NoImage]
      [] outcome = "ok" ->
           [res |-> NoRes, uareas |-> prog, name |-> ProgramName(prog),
            uctx |-> UspaceContextNew(EntryOf(prog), StackOf(prog), 0),
            locked |-> FALSE, entered |-> TRUE]

\* A plausible slip: the user areas unmapped before the owner count is read.
exec_UnmapFirst(rc, st, prog, outcome) ==
    IF rc # 1
    THEN [ExecUnchanged(rc, st, AxErr("Unsupported")) EXCEPT !.uareas = NoImage]
    ELSE exec_sole(rc, st, prog, outcome)

\* exec(name, args, envs) on a task with owner count rc and the fields st:
\* what it returns, what it leaves, whether the aspace mutex is still held
\* and whether it entered user mode.
exec(rc, st, prog, outcome) ==
    IF rc # 1
    THEN ExecUnchanged(rc, st, AxErr("Unsupported"))
    ELSE exec_sole(rc, st, prog, outcome)

ExecFields(t) == [uareas |-> uareas[t], name |-> task_name[t], uctx |-> uctx[t]]

\* sys_execve(path, argv, envp): exec; an error goes back to the dispatcher,
\* success enters user mode from inside exec and never returns.
SysExecve(t, prof) ==
    /\ Routed(t, "sys_execve")
    /\ \E args \in ArgsOf(prof, "execve"), outcome \in ExecOutcomes :
         LET r == exec(aspace_rc[t], ExecFields(t), args[1], outcome)
         IN  /\ uareas' = [uareas EXCEPT ![t] = r.uareas]
             /\ task_name' = [task_name EXCEPT ![t] = r.name]
             /\ uctx' = [uctx EXCEPT ![t] = r.uctx]
             /\ aspace_locked' = [aspace_locked EXCEPT ![t] = r.locked]
             /\ IF r.entered
                THEN /\ pc' = [pc EXCEPT ![t] = "user"]
                     /\ FrameDropped(t)
                ELSE /\ pc' = [pc EXCEPT ![t] = "ret"]
                     /\ cur' = [cur EXCEPT ![t].a0 = args[1]]
                     /\ trace' = [trace EXCEPT ![t] = Append(trace[t], "handler")]
                     /\ core_res' = [core_res EXCEPT ![t] = r.res]
                     /\ result' = [result EXCEPT ![t] = Err(LinuxErrorOf(r.res.err))]
                     /\ UNCHANGED <<tf, retval, status_word, new_task, wl, wait_res>>
    /\ UNCHANGED <<aux_vars, arch, panicked, next_id, traps, exit_code>>
    /\ UNCHANGED <<proc_id, parent_id, children, aspace_rc, time_vars>>

\* ----------------------------------------------------------- clone
\* CloneFlags::from_bits((flags & !0x3f) as u32) is Some: no bit outside
\* the recognised flags is set.
CloneFlagsKnown(flags) ==
    LET bits == flags - (flags % (CloneSignalMask + 1))
    IN  (bits \div (CloneSignalMask + 1)) % 2 = 0

\* What the VM layer may do under clone_task: clone_or_err and
\* copy_from_kernel succeed, or one of them fails.
CloneOutcomes == {"ok", "clone_err", "copy_err"}

\* A plausible slip: the instruction skipped on one of the two targets only.
SkipsInsn_RiscvOnly(a) == a = "riscv64"

\* The instruction pointer moves past the trapping instruction on the
\* targets whose trap handler returns to it.
SkipsInsn(a) == a \in {"riscv64", "loongarch64"}

\* UspaceContext::from(&trap_frame), set_sp(stack) if Some, the skipped
\* instruction, set_retval(0).  stack = 0 stands for None.
ChildUctx(a, frame, stack) ==
    [ip |-> IF SkipsInsn(a) THEN frame.ip + InsnLen ELSE frame.ip,
     sp |-> IF stack # 0 THEN stack ELSE frame.sp,
     rv |-> 0]

\* A plausible slip: the child made and queued under the parent before the
\* address space is known to be cloned.
CloneBeginLeaky(t, args, vm) ==
    /\ Routed(t, "sys_clone")
    /\ trace' = [trace EXCEPT ![t] = Append(trace[t], "handler")]
    /\ cur' = [cur EXCEPT ![t].a0 = args[1], ![t].a1 = args[2]]
    /\ IF ~CloneFlagsKnown(args[1])
       THEN /\ panicked' = TRUE
            /\ UNCHANGED <<next_id, pc, proc_id, parent_id, children, uctx, task_name>>
            /\ UNCHANGED <<aspace_rc, aspace_locked, uareas, time>>
            /\ UNCHANGED <<result, core_res, new_task, heap_vars, ns_vars, rlimits>>
       ELSE /\ next_id <= MaxTaskId
            /\ next_id' = next_id + 1
            /\ UNCHANGED panicked
            /\ IF vm # "ok"
               THEN /\ core_res' = [core_res EXCEPT ![t] = AxErr("NoMemory")]
                    /\ result' = [result EXCEPT ![t] = Err(LinuxErrorOf("NoMemory"))]
                    /\ pc' = [pc EXCEPT ![t] = "ret"]
                    /\ children' = [children EXCEPT ![t] = Append(children[t], next_id)]
                    /\ UNCHANGED <<proc_id, parent_id, uctx, task_name>>
                    /\ UNCHANGED <<aspace_rc, aspace_locked, uareas, time, new_task>>
                    /\ UNCHANGED <<heap_vars, ns_vars, rlimits>>
               ELSE LET c == next_id
                    IN  /\ pc' = [pc EXCEPT ![t] = "clone_spawn", ![c] = "new"]
                        /\ new_task' = [new_task EXCEPT ![t] = c]
                        /\ aspace_locked' = [aspace_locked EXCEPT ![t] = TRUE]
                        /\ proc_id' = [proc_id EXCEPT ![c] = c]
                        /\ parent_id' = [parent_id EXCEPT ![c] = INIT_PARENT_ID]
                        /\ children' = [children EXCEPT ![c] = <<>>]
                        /\ uctx' = [uctx EXCEPT ![c] = ChildUctx(arch, tf[t], args[2])]
                        /\ task_name' = [task_name EXCEPT ![c] = id_name(t, task_name[t])]
                        /\ aspace_rc' = [aspace_rc EXCEPT ![c] = 1]
                        /\ uareas' = [uareas EXCEPT ![c] = uareas[t]]
                        /\ time' = [time EXCEPT ![c] = TimeStatNew]
                        /\ heap_bottom' = [heap_bottom EXCEPT ![c] =
                               TaskExtNewHeap(USER_HEAP_BASE).bottom]
                        /\ heap_top' = [heap_top EXCEPT ![c] =
                               TaskExtNewHeap(USER_HEAP_BASE).top]
                        /\ rlimits' = [rlimits EXCEPT ![c] = TaskExtNewRlimits]
                        /\ ns_slot' = [ns_slot EXCEPT ![c] =
                               ns_init_new(ns_slot, ns_val, c, t).slot]
                        /\ ns_val' = [ns_val EXCEPT ![c] =
                               ns_init_new(ns_slot, ns_val, c, t).val]
                        /\ UNCHANGED <<result, core_res>>
    /\ UNCHANGED <<lib_vars, rl_ret, arch, traps, exit_code, clock, first_cross, tf, retval>>
    /\ UNCHANGED <<wl, wait_res, status_word>>

\* clone_task up to init_task_ext: the flags, TaskInner::new (which draws
\* the id), the aspace lock, clone_or_err, copy_from_kernel, the child's
\* uctx and TaskExt::new.  A failure returns through `?`: the task object
\* is dropped, the lock guard with it.
CloneBegin(t, args, vm) ==
    /\ Routed(t, "sys_clone")
    /\ trace' = [trace EXCEPT ![t] = Append(trace[t], "handler")]
    /\ cur' = [cur EXCEPT ![t].a0 = args[1], ![t].a1 = args[2]]
    /\ IF ~CloneFlagsKnown(args[1])
       THEN /\ panicked' = TRUE
            /\ UNCHANGED <<next_id, pc, proc_id, parent_id, children, uctx, task_name>>
            /\ UNCHANGED <<aspace_rc, aspace_locked, uareas, time>>
            /\ UNCHANGED <<result, core_res, new_task, heap_vars, ns_vars, rlimits>>
       ELSE /\ next_id <= MaxTaskId
            /\ next_id' = next_id + 1
            /\ UNCHANGED panicked
            /\ IF vm # "ok"
               THEN /\ core_res' = [core_res EXCEPT ![t] = AxErr("NoMemory")]
                    /\ result' = [result EXCEPT ![t] = Err(LinuxErrorOf("NoMemory"))]
                    /\ pc' = [pc EXCEPT ![t] = "ret"]
                    /\ UNCHANGED <<proc_id, parent_id, children, uctx, task_name>>
                    /\ UNCHANGED <<aspace_rc, aspace_locked, uareas, time, new_task>>
                    /\ UNCHANGED <<heap_vars, ns_vars, rlimits>>
               ELSE LET c == next_id
                    IN  /\ pc' = [pc EXCEPT ![t] = "clone_spawn", ![c] = "new"]
                        /\ new_task' = [new_task EXCEPT ![t] = c]
                        /\ aspace_locked' = [aspace_locked EXCEPT ![t] = TRUE]
                        /\ proc_id' = [proc_id EXCEPT ![c] = c]
                        /\ parent_id' = [parent_id EXCEPT ![c] = INIT_PARENT_ID]
                        /\ children' = [children EXCEPT ![c] = <<>>]
                        /\ uctx' = [uctx EXCEPT ![c] = ChildUctx(arch, tf[t], args[2])]
                        /\ task_name' = [task_name EXCEPT ![c] = id_name(t, task_name[t])]
                        /\ aspace_rc' = [aspace_rc EXCEPT ![c] = 1]
                        /\ uareas' = [uareas EXCEPT ![c] = uareas[t]]
                        /\ time' = [time EXCEPT ![c] = TimeStatNew]
                        /\ heap_bottom' = [heap_bottom EXCEPT ![c] =
                               TaskExtNewHeap(USER_HEAP_BASE).bottom]
                        /\ heap_top' = [heap_top EXCEPT ![c] =
                               TaskExtNewHeap(USER_HEAP_BASE).top]
                        /\ rlimits' = [rlimits EXCEPT ![c] = TaskExtNewRlimits]
                        /\ ns_slot' = [ns_slot EXCEPT ![c] =
                               ns_init_new(ns_slot, ns_val, c, t).slot]
                        /\ ns_val' = [ns_val EXCEPT ![c] =
                               ns_init_new(ns_slot, ns_val, c, t).val]
                        /\ UNCHANGED <<result, core_res>>
    /\ UNCHANGED <<lib_vars, rl_ret, arch, traps, exit_code, clock, first_cross, tf, retval>>
    /\ UNCHANGED <<wl, wait_res, status_word>>

\* let new_task_ref = axtask::spawn_task(new_task): the child is runnable.
CloneSpawn(t) ==
    /\ ~panicked
    /\ pc[t] = "clone_spawn"
    /\ pc' = [pc EXCEPT ![t] = "clone_push", ![new_task[t]] = "entry"]
    /\ UNCHANGED <<aux_vars, arch, panicked, next_id, traps, exit_code>>
    /\ UNCHANGED <<ext_vars, mm_vars, time_vars, disp_vars, life_vars>>

\* A plausible slip: the handle pushed once before spawn_task and once after.
ClonePushTwice(t) ==
    /\ ~panicked
    /\ pc[t] = "clone_push"
    /\ children' = [children EXCEPT ![t] =
                       Append(Append(children[t], new_task[t]), new_task[t])]
    /\ aspace_locked' = [aspace_locked EXCEPT ![t] = FALSE]
    /\ core_res' = [core_res EXCEPT ![t] = AxOk(new_task[t])]
    /\ result' = [result EXCEPT ![t] = Ok(new_task[t])]
    /\ pc' = [pc EXCEPT ![t] = "ret"]
    /\ UNCHANGED <<aux_vars, arch, panicked, next_id, traps, exit_code>>
    /\ UNCHANGED <<proc_id, parent_id, uctx, task_name, aspace_rc, uareas>>
    /\ UNCHANGED <<time_vars, tf, cur, retval, trace>>
    /\ UNCHANGED <<new_task, wl, wait_res, status_word>>

\* children.lock().push(new_task_ref); Ok(return_id); the aspace guard drops.
ClonePush(t) ==
    /\ ~panicked
    /\ pc[t] = "clone_push"
    /\ children' = [children EXCEPT ![t] = Append(children[t], new_task[t])]
    /\ aspace_locked' = [aspace_locked EXCEPT ![t] = FALSE]
    /\ core_res' = [core_res EXCEPT ![t] = AxOk(new_task[t])]
    /\ result' = [result EXCEPT ![t] = Ok(new_task[t])]
    /\ pc' = [pc EXCEPT ![t] = "ret"]
    /\ UNCHANGED <<aux_vars, arch, panicked, next_id, traps, exit_code>>
    /\ UNCHANGED <<proc_id, parent_id, uctx, task_name, aspace_rc, uareas>>
    /\ UNCHANGED <<time_vars, tf, cur, retval, trace>>
    /\ UNCHANGED <<new_task, wl, wait_res, status_word>>

\* TaskExt::set_parent(parent_id) on the extension of task t.
set_parent(old, new_parent_id) == new_parent_id
ParentArgs == {INIT_PARENT_ID, FirstUserId}
SetParent(t, p) ==
    /\ ~panicked
    /\ pc[t] # "none"
    /\ parent_id' = [parent_id EXCEPT ![t] = set_parent(parent_id[t], p)]
    /\ UNCHANGED <<aux_vars, sched_vars, mm_vars, time_vars, disp_vars, life_vars>>
    /\ UNCHANGED <<proc_id, children, uctx, task_name>>

\* write_trapframe_to_kstack(kstack_top, trap_frame) on the kernel stack of
\* task t, which is in a dispatch: the saved frame is overwritten.
write_trapframe_to_kstack(old, trap_frame) == trap_frame
TrapFrameArgs == {[ip |-> 200, sp |-> 600, rv |-> 3]}
WriteTrapframe(t, frame) ==
    /\ ~panicked
    /\ pc[t] \in KernelPcs
    /\ tf' = [tf EXCEPT ![t] = write_trapframe_to_kstack(tf[t], frame)]
    /\ UNCHANGED <<aux_vars, sched_vars, ext_vars, mm_vars, time_vars, life_vars>>
    /\ UNCHANGED <<cur, result, retval, trace>>

SysClone(t, prof) ==
    \E args \in ArgsOf(prof, "clone"), vm \in CloneOutcomes : CloneBegin(t, args, vm)

\* ------------------------------------------------------------ wait
\* wait_pid's locals before the loop: exit_task_id = 0, answer_id = 0,
\* answer_status = NotExist; idx is the loop's position (from 1), yields
\* counts the calls of yield_now.  History: kids0 is the children list at
\* the call and dead0 the children that had exited by then.
WaitStart(t) ==
    [idx |-> 1, status |-> "NotExist", exit_task_id |-> 0,
     answer_id |-> 0, yields |-> 0, kids0 |-> children[t],
     dead0 |-> {c \in Range(children[t]) : pc[c] = "dead"}]

\* sys_wait4(pid, exit_code_ptr, option) calls wait_pid(pid, exit_code_ptr).
SysWait4(t, prof) ==
    /\ Routed(t, "sys_wait4")
    /\ \E args \in ArgsOf(prof, "wait4") :
         cur' = [cur EXCEPT ![t].a0 = args[1], ![t].a1 = args[2]]
    /\ wl' = [wl EXCEPT ![t] = WaitStart(t)]
    /\ pc' = [pc EXCEPT ![t] = "wait_scan"]
    /\ trace' = [trace EXCEPT ![t] = Append(trace[t], "handler")]
    /\ UNCHANGED <<aux_vars, arch, panicked, next_id, traps, exit_code, tf, result, retval>>
    /\ UNCHANGED <<ext_vars, mm_vars, time_vars>>
    /\ UNCHANGED <<core_res, new_task, wait_res, status_word>>

\* A plausible slip: the position counted from 1.
WaitFound_FromOne(w, index, child) ==
    [w EXCEPT !.status = "Exited", !.exit_task_id = index + 1, !.answer_id = child]

\* The locals after the loop body has found child (at 0-based index) exited
\* with code c.
WaitFound(w, index, child) ==
    [w EXCEPT !.status = "Exited", !.exit_task_id = index, !.answer_id = child]

\* A plausible slip: the status word written without the shift.
WaitStatusWordRaw(old, ptr, c) == IF ptr # 0 THEN c ELSE old

\* if !exit_code_ptr.is_null() { *exit_code_ptr = exit_code << 8 }
WaitStatusWord(old, ptr, c) == IF ptr # 0 THEN Shl8(c) ELSE old

\* One turn of `for (index, child) in children.lock().iter().enumerate()`,
\* or the end of the loop.  child.join() blocks until the child has exited.
WaitScan(t) ==
    /\ ~panicked
    /\ pc[t] = "wait_scan"
    /\ LET w == wl[t]
           pid == cur[t].a0
           ptr == cur[t].a1
           more == w.idx <= Len(children[t])
           child == children[t][w.idx]
       IN  IF ~more
           THEN /\ pc' = [pc EXCEPT ![t] = "wait_post"]
                /\ UNCHANGED <<wl, status_word>>
           ELSE IF pid <= 0
           THEN IF TaskState(child) = "Exited"
                THEN /\ wl' = [wl EXCEPT ![t] = WaitFound(w, w.idx - 1, child)]
                     /\ status_word' = [status_word EXCEPT ![t] =
                            WaitStatusWord(status_word[t], ptr, exit_code[child])]
                     /\ pc' = [pc EXCEPT ![t] = "wait_post"]
                ELSE /\ wl' = [wl EXCEPT ![t] =
                            [w EXCEPT !.status = "Running", !.idx = w.idx + 1]]
                     /\ UNCHANGED <<pc, status_word>>
           ELSE IF child = pid
           THEN /\ TaskState(child) = "Exited"
                /\ wl' = [wl EXCEPT ![t] = WaitFound(w, w.idx - 1, child)]
                /\ status_word' = [status_word EXCEPT ![t] =
                       WaitStatusWord(status_word[t], ptr, exit_code[child])]
                /\ pc' = [pc EXCEPT ![t] = "wait_post"]
           ELSE /\ wl' = [wl EXCEPT ![t] = [w EXCEPT !.idx = w.idx + 1]]
                /\ UNCHANGED <<pc, status_word>>
    /\ UNCHANGED <<aux_vars, arch, panicked, next_id, traps, exit_code>>
    /\ UNCHANGED <<ext_vars, mm_vars, time_vars, disp_vars>>
    /\ UNCHANGED <<core_res, new_task, wait_res>>

\* if answer_status == WaitStatus::Running { axtask::yield_now(); }
WaitYield(t) ==
    /\ ~panicked
    /\ pc[t] = "wait_post"
    /\ wl[t].status = "Running"
    /\ wl[t].yields = 0
    /\ wl' = [wl EXCEPT ![t] = [wl[t] EXCEPT !.yields = 1]]
    /\ UNCHANGED <<aux_vars, sched_vars, ext_vars, mm_vars, time_vars, disp_vars>>
    /\ UNCHANGED <<core_res, new_task, wait_res, status_word>>

\* A plausible slip: every failure reported as NotExist.
WaitResult_AlwaysNotExist(w) ==
    IF w.status = "Exited" THEN AxOk(w.answer_id) ELSE AxErr("NotExist")

\* What wait_pid returns for its locals.
WaitResult(w) ==
    IF w.status = "Exited" THEN AxOk(w.answer_id) ELSE AxErr(w.status)

\* A plausible slip: the reaped child left in children.
WaitChildrenKept(w, kids) == kids

\* if answer_status == Exited { children.lock().remove(exit_task_id) }
WaitChildren(w, kids) ==
    IF w.status = "Exited" THEN RemoveAt(kids, w.exit_task_id) ELSE kids

\* The end of wait_pid and what sys_wait4 makes of its result: the id, or
\* ECHILD for NotExist; on Running it goes round its loop.
WaitReturn(t) ==
    /\ ~panicked
    /\ pc[t] = "wait_post"
    /\ wl[t].status = "Running" => wl[t].yields = 1
    /\ children' = [children EXCEPT ![t] = WaitChildren(wl[t], children[t])]
    /\ wait_res' = [wait_res EXCEPT ![t] = WaitResult(wl[t])]
    /\ IF wl[t].status = "Running"
       THEN /\ pc' = [pc EXCEPT ![t] = "wait_retry"]
            /\ UNCHANGED result
       ELSE /\ result' = [result EXCEPT ![t] =
                   IF wl[t].status = "Exited" THEN Ok(wl[t].answer_id)
                   ELSE Err("ECHILD")]
            /\ pc' = [pc EXCEPT ![t] = "ret"]
    /\ UNCHANGED <<aux_vars, arch, panicked, next_id, traps, exit_code>>
    /\ UNCHANGED <<proc_id, parent_id, uctx, task_name, mm_vars, time_vars>>
    /\ UNCHANGED <<tf, cur, retval, trace, core_res, new_task, wl, status_word>>

\* sys_wait4's loop: wait_pid(pid, exit_code_ptr) is called again.
WaitRetry(t) ==
    /\ ~panicked
    /\ pc[t] = "wait_retry"
    /\ wl' = [wl EXCEPT ![t] = WaitStart(t)]
    /\ pc' = [pc EXCEPT ![t] = "wait_scan"]
    /\ UNCHANGED <<aux_vars, arch, panicked, next_id, traps, exit_code>>
    /\ UNCHANGED <<ext_vars, mm_vars, time_vars, disp_vars>>
    /\ UNCHANGED <<core_res, new_task, wait_res, status_word>>

\* ------------------------------------------------------------- Next
\* The syscalls of the task lifecycle.
LifeSysnos == {"clone", "wait4", "exit", "execve"}

\* The steps of the lifecycle handlers and of the dispatcher around them.
Lifecycle(t, prof) ==
    \/ EnterUspace(t)
    \/ HandleSyscallExit(t)
    \/ TrapReturn(t)
    \/ SysExit(t, prof)
    \/ SysExecve(t, prof)
    \/ SysClone(t, prof)
    \/ CloneSpawn(t)
    \/ ClonePush(t)
    \/ SysWait4(t, prof)
    \/ WaitScan(t)
    \/ WaitYield(t)
    \/ WaitReturn(t)
    \/ WaitRetry(t)

\* The handlers that only produce a result, and the stubs.
Stubs(t) ==
    \/ StubUnimplemented(t)
    \/ StubBypass(t)
    \/ StubKill(t)
    \/ SysAccess(t)
    \/ SysRead(t)

\* User tasks that clone, exec, wait and exit; one clone is made.
LifeSysnosOf(t) ==
    IF next_id = FirstUserId + 1 THEN LifeSysnos ELSE LifeSysnos \ {"clone"}
Next == \E t \in Tasks : TrapOf(t, LifeSysnosOf(t)) \/ Lifecycle(t, "life")

Spec == Init /\ [][Next]_vars

\* Every syscall number of the target, through the dispatcher; the first
\* task makes one child.
DispatchSysnos(t) ==
    IF t = FirstUserId /\ next_id = FirstUserId + 1
    THEN Sysnos(arch) ELSE Sysnos(arch) \ {"clone"}

NextDispatch ==
    \E t \in Tasks : TrapOf(t, DispatchSysnos(t)) \/ Lifecycle(t, "time") \/ Stubs(t)

SpecDispatch == Init /\ [][NextDispatch]_vars

\* A parent that makes one child and waits for it, and a child that
\* replaces its image and exits, under a clock that advances.
TimeSysnos(t) ==
    IF t = FirstUserId
    THEN {"wait4"} \cup (IF next_id = FirstUserId + 1 THEN {"clone"} ELSE {})
    ELSE {"execve", "exit"}

NextTime ==
    \/ Tick
    \/ \E t \in Tasks : TrapOf(t, TimeSysnos(t)) \/ Lifecycle(t, "time")

SpecTime == Init /\ [][NextTime]_vars

\* ------------------------------------------------------------ claims
InList(c, kids) == \E i \in 1..Len(kids) : kids[i] = c

\* C1: while clone_task runs in a parent, its new child is not running and
\* has not exited unless its handle is already in the parent's children.
C1_ChildListedBeforeItRuns ==
    \A p \in Tasks :
        LET c == new_task[p]
        IN  (c # 0 /\ pc[c] \notin {"none", "new", "entry"}) => InList(c, children[p])

\* C2: a task that is in a syscall, and that is a child of p, reads p's id
\* as its parent_id.
C2_ChildSeesParentId ==
    \A p \in Tasks : \A c \in Tasks :
        (InList(c, children[p]) /\ pc[c] \in KernelPcs) => parent_id[c] = p

\* wait_pid has returned to sys_wait4 in task t.
WaitDone(t) == wait_res[t] # NoRes /\ pc[t] \in {"ret", "sysret", "wait_retry"}

\* At the call of wait_pid the only child of t had exited.
OnlyChildExited(t) == Len(wl[t].kids0) = 1 /\ wl[t].kids0[1] \in wl[t].dead0

\* C3: wait(-1, p) by a parent whose only child has exited with code k
\* returns the child's id, leaves k << 8 in *p when p is not null (7 gives
\* 1792) and *p alone when it is, and removes the child; a wait that finds
\* no children returns NotExist.
C3_WaitReapsOnlyChild ==
    \A t \in Tasks :
        /\ (WaitDone(t) /\ cur[t].a0 = 0 - 1 /\ OnlyChildExited(t)) =>
              LET c == wl[t].kids0[1]
              IN  /\ wait_res[t] = AxOk(c)
                  /\ children[t] = <<>>
                  /\ cur[t].a1 # 0 => status_word[t] = Shl8(exit_code[c])
                  /\ (cur[t].a1 # 0 /\ exit_code[c] = 7) => status_word[t] = 1792
                  /\ cur[t].a1 = 0 => status_word[t] = StatusUnset
        /\ (WaitDone(t) /\ wl[t].kids0 = <<>>) => wait_res[t] = AxErr("NotExist")

C3_Witness ==
    \E t \in Tasks : \E c \in Tasks :
        /\ WaitDone(t) /\ cur[t].a0 = 0 - 1 /\ cur[t].a1 # 0
        /\ wl[t].kids0 = <<c>> /\ c \in wl[t].dead0 /\ exit_code[c] = 7
        /\ wait_res[t] = AxOk(c) /\ status_word[t] = 1792 /\ children[t] = <<>>

\* C4: when exec has returned NotFound to a task that is still live, the
\* task's user areas are mapped.
C4_ExecLoadFailureKeepsImage ==
    \A t \in Tasks :
        (pc[t] \in {"ret", "sysret"} /\ cur[t].sys = "execve"
            /\ core_res[t] = AxErr("NotFound")) => uareas[t] # NoImage

\* C5: the step of exec on an address space with more than one owner
\* returns Unsupported and changes nothing of the task; the aspace mutex
\* is free after it.
C5_ExecSharedStep ==
    \A t \in Tasks :
        (/\ pc[t] = "handler" /\ Route(arch, cur[t].sys) = "sys_execve"
         /\ aspace_rc[t] > 1 /\ pc'[t] # pc[t])
        => /\ pc'[t] = "ret"
           /\ core_res'[t] = AxErr("Unsupported")
           /\ ~result'[t].ok
           /\ uareas'[t] = uareas[t]
           /\ task_name'[t] = task_name[t]
           /\ uctx'[t] = uctx[t]
           /\ ~aspace_locked'[t]

C5_ExecSharedUnsupported == [][C5_ExecSharedStep]_vars

C5_Witness ==
    \E t \in Tasks :
        /\ pc[t] = "ret" /\ cur[t].sys = "execve" /\ aspace_rc[t] > 1
        /\ core_res[t] = AxErr("Unsupported") /\ uareas[t] = BootProgram

\* C6: the step of clone in which the address-space clone or the kernel
\* merge fails returns an error, makes no task runnable and leaves the
\* children list and every other field of every task as it was.
C6_CloneFailureStep ==
    \A t \in Tasks :
        (/\ pc[t] = "handler" /\ Route(arch, cur[t].sys) = "sys_clone"
         /\ pc'[t] = "ret")
        => /\ core_res'[t].kind = "Err"
           /\ ~result'[t].ok
           /\ pc' = [pc EXCEPT ![t] = "ret"]
           /\ new_task'[t] = 0
           /\ ~aspace_locked'[t]
           /\ UNCHANGED <<ext_vars, mm_vars, time, exit_code>>

C6_CloneFailureLeavesNothing == [][C6_CloneFailureStep]_vars

C6_Witness ==
    \E t \in Tasks :
        /\ pc[t] = "ret" /\ cur[t].sys = "clone" /\ core_res[t] = AxErr("NoMemory")
        /\ \A c \in Tasks : ~InList(c, children[t]) /\ new_task[c] = 0

\* A dispatch of t is in progress and its handler has been entered.
HandlerEntered(t) == cur[t].sys # "none" /\ Len(trace[t]) >= 2

\* C7: in a dispatch the switch to KERNEL comes first, then the handler,
\* then the switch to USER, each once; while the handler runs the side is
\* KERNEL.
C7_SwitchesBracketHandler ==
    \A t \in Tasks :
        /\ pc[t] \in HandlerPcs =>
              /\ time[t].side = "KERNEL"
              /\ trace[t] \in {<<"u2k">>, <<"u2k", "handler">>}
        /\ pc[t] = "ret" =>
              /\ time[t].side = "KERNEL"
              /\ trace[t] = <<"u2k", "handler">>
        /\ pc[t] = "sysret" =>
              /\ time[t].side = "USER"
              /\ trace[t] = <<"u2k", "handler", "k2u">>

C7_Witness ==
    \E t \in Tasks :
        /\ pc[t] = "sysret" /\ cur[t].sys = "wait4"
        /\ trace[t] = <<"u2k", "handler", "k2u">> /\ time[t].side = "USER"

\* C8: nanosleep goes to the bypass stub, sysinfo to the unimplemented stub
\* and a number without an arm to the kill stub; after the kill stub the
\* task has exited with code ENOSYS and nothing was returned; after the
\* unimplemented stub the task lives and gets -ENOSYS, after the bypass
\* stub it lives and gets 0.
C8_UnknownSyscallPolicy ==
    /\ Route(arch, "nanosleep") = "stub_bypass"
    /\ Route(arch, "sysinfo") = "stub_unimplemented"
    /\ Route(arch, "tkill") = "stub_kill"
    /\ \A t \in Tasks :
          HandlerEntered(t) =>
            LET h == Route(arch, cur[t].sys)
            IN  /\ h = "stub_kill" =>
                      /\ pc[t] = "dead"
                      /\ exit_code[t] = code("ENOSYS")
                      /\ trace[t] = <<"u2k", "handler">>
                /\ h = "stub_unimplemented" =>
                      /\ pc[t] \in {"ret", "sysret"}
                      /\ result[t] = Err("ENOSYS")
                      /\ pc[t] = "sysret" => retval[t] = 0 - 38
                /\ h = "stub_bypass" =>
                      /\ pc[t] \in {"ret", "sysret"}
                      /\ result[t] = Ok(0)
                      /\ pc[t] = "sysret" => retval[t] = 0

C8_Witness ==
    \E t \in Tasks :
        /\ cur[t].sys = "tkill" /\ pc[t] = "dead" /\ exit_code[t] = 38
        /\ \E u \in Tasks : cur[u].sys = "sysinfo" /\ pc[u] = "sysret" /\ retval[u] = 0 - 38

\* C9: what the dispatcher hands back to user mode is v for a handler
\* result Ok(v), whatever its sign, and minus the errno's code for Err(E).
C9_DispatcherReturn ==
    \A t \in Tasks :
        pc[t] = "sysret" =>
            /\ result[t].ok => retval[t] = result[t].val
            /\ ~result[t].ok => (retval[t] = 0 - code(result[t].err) /\ retval[t] < 0)

C9_Witness ==
    \E t \in Tasks :
        /\ pc[t] = "sysret" /\ cur[t].sys = "read"
        /\ result[t] = Err("EINVAL") /\ retval[t] = 0 - 22

\* Since the first crossing of t the sum of its counters has grown by the
\* monotonic time that has passed up to its last crossing.
C10_SumIsElapsed ==
    \A t \in Tasks :
        first_cross[t].seen =>
            TimeSum(time[t]) - first_cross[t].sum = time[t].last - first_cross[t].at

\* A crossing charges the time since the last one to one counter and
\* leaves the other alone; the sum does not decrease.
C10_CrossingStep ==
    \A t \in Tasks :
        time'[t] # time[t] =>
            LET d == clock - time[t].last
            IN  /\ d >= 0
                /\ time'[t].last = clock
                /\ \/ /\ time'[t].user_ns = time[t].user_ns + d
                      /\ time'[t].kernel_ns = time[t].kernel_ns
                   \/ /\ time'[t].user_ns = time[t].user_ns
                      /\ time'[t].kernel_ns = time[t].kernel_ns + d
                /\ TimeSum(time'[t]) >= TimeSum(time[t])

\* C10: for every task user_ns + kernel_ns never decreases; from the first
\* crossing to the last it grows by the monotonic time elapsed, and each
\* interval between crossings is charged to exactly one counter.
C10_ExactlyOnceAccounting == []C10_SumIsElapsed /\ [][C10_CrossingStep]_vars

C10_Witness ==
    \E t \in Tasks :
        /\ pc[t] = "sysret" /\ cur[t].sys = "wait4" /\ wait_res[t].kind = "Ok"
        /\ first_cross[t].seen /\ time[t].last > first_cross[t].at
        /\ time[t].kernel_ns > 0 /\ time[t].user_ns > first_cross[t].sum

\* The places (list, position) at which the handle of c is held.
Holders(c) ==
    {pi \in Tasks \X (1..MaxTaskId) :
        pi[2] <= Len(children[pi[1]]) /\ children[pi[1]][pi[2]] = c}

\* Each handle is in at most one children list, at most once.
C11_HeldOnce == \A c \in Tasks : Cardinality(Holders(c)) <= 1

\* A children list changes only by its owner's clone, which appends the
\* task it has just made, or by its owner's wait that returns a child's id,
\* which removes that child.
C11_ListStep ==
    \A p \in Tasks :
        children'[p] # children[p] =>
            \/ /\ pc[p] = "clone_push"
               /\ new_task[p] \in Tasks
               /\ children'[p] = Append(children[p], new_task[p])
            \/ /\ pc[p] = "wait_post"
               /\ wait_res'[p].kind = "Ok"
               /\ \E i \in 1..Len(children[p]) :
                     /\ children[p][i] = wait_res'[p].val
                     /\ children'[p] = RemoveAt(children[p], i - 1)

\* C11: a task handle is in at most one children list and at most once in
\* it; it is added only by the clone of the task that made it and removed
\* only by that task's own successful wait.
C11_ChildrenListsDisjoint == []C11_HeldOnce /\ [][C11_ListStep]_vars

\* The first task has cloned twice, its first child once, and that child's
\* own child has exited: the first child is about to reap it while the first
\* task's list holds two handles.
C11_Witness ==
    LET p == FirstUserId
        q == FirstUserId + 1
        c == FirstUserId + 2
        d == FirstUserId + 3
    IN  /\ children[p] = <<q, d>>
        /\ children[q] = <<c>>
        /\ Holders(q) = {<<p, 1>>}
        /\ Holders(d) = {<<p, 2>>}
        /\ Holders(c) = {<<q, 1>>}
        /\ pc[c] = "dead"
        /\ pc[q] = "wait_post" /\ wl[q].status = "Exited" /\ wl[q].answer_id = c

\* A parent that makes one child and from then on only waits, and a child
\* that only exits.
ReapSysnos(t) ==
    IF t = FirstUserId
    THEN (IF next_id = FirstUserId + 1 THEN {"clone"} ELSE {"wait4"})
    ELSE {"exit"}

\* The steps of task t in that scenario.
ReapStep(t) ==
    \/ TrapOf(t, ReapSysnos(t))
    \/ EnterUspace(t)
    \/ HandleSyscallExit(t)
    \/ TrapReturn(t)
    \/ SysExit(t, "life")
    \/ SysClone(t, "life")
    \/ CloneSpawn(t)
    \/ ClonePush(t)
    \/ SysWait4(t, "life")
    \/ WaitScan(t)
    \/ WaitYield(t)
    \/ WaitReturn(t)
    \/ WaitRetry(t)

NextReap == \E t \in Tasks : ReapStep(t)

\* The scheduler lets every task that can take a step take one.
SpecReap == Init /\ [][NextReap]_vars /\ \A t \in Tasks : WF_vars(ReapStep(t))

\* A child of p that has exited is eventually off p's list.
C12_ExitedIsReaped ==
    \A p \in Tasks : \A c \in Tasks :
        (InList(c, children[p]) /\ pc[c] = "dead") ~> ~InList(c, children[p])

\* A children list gets shorter only in its owner's wait_pid, which then
\* returns the id of the exited child it removed.
C12_ReapStep ==
    \A p \in Tasks :
        Len(children'[p]) < Len(children[p]) =>
            /\ pc[p] = "wait_post" /\ pc'[p] = "ret"
            /\ wait_res'[p].kind = "Ok"
            /\ pc[wait_res'[p].val] = "dead"
            /\ InList(wait_res'[p].val, children[p])
            /\ ~InList(wait_res'[p].val, children'[p])

\* C12: under a parent that keeps calling wait(-1) and a fair scheduler a
\* child that has exited is eventually removed from its parent's children,
\* by a successful wait of that parent and by nothing else.
C12_ReapingIsLive == C12_ExitedIsReaped /\ [][C12_ReapStep]_vars

C12_Witness ==
    \E p \in Tasks : \E c \in Tasks :
        /\ pc[p] = "ret" /\ cur[p].sys = "wait4" /\ cur[p].a0 = 0 - 1
        /\ wait_res[p] = AxOk(c) /\ pc[c] = "dead"
        /\ wl[p].kids0 = <<c>> /\ c \notin wl[p].dead0
        /\ children[p] = <<>>

\* ------------------------------------------------------------ namespaces

\* What task or kernel o sees of resource r through its namespace.
NsView(o) == [r \in NsRes |-> copy_inner(ns_slot, ns_val, o, r)]
HasNs(o) == ns_slot[o] # NoNs

\* Owner o changes one of its resources in place through its namespace: a
\* descriptor opened or closed in FD_TABLE, or the current directory
\* replaced.
NsWrite(o, r) ==
    /\ HasNs(o)
    /\ o \in Tasks => pc[o] \notin {"none", "dead"}
    /\ ns_val' = [ns_val EXCEPT ![ns_slot[o][r]][r] = 1 - @]
    /\ UNCHANGED <<task_vars, rl_vars, heap_vars, ns_slot, lib_vars>>

\* The first user task clones once; the kernel task and every task write
\* their resources at any time.
NsSysnos(t) ==
    IF t = FirstUserId /\ next_id = FirstUserId + 1 THEN {"clone"} ELSE {}
NsStep(t) ==
    \/ TrapOf(t, NsSysnos(t))
    \/ EnterUspace(t)
    \/ HandleSyscallExit(t)
    \/ TrapReturn(t)
    \/ SysClone(t, "time")
    \/ CloneSpawn(t)
    \/ ClonePush(t)
NextNs ==
    \/ \E t \in Tasks : NsStep(t)
    \/ \E o \in Owners, r \in NsRes : NsWrite(o, r)
\* spawn_user_task runs with whatever the kernel namespace holds by then.
InitNs == (\E g \in NsValues : InitTask(g)) /\ SigIdle /\ DentsIdle /\ UnlinkIdle
SpecNs == InitNs /\ [][NextNs]_vars

\* C13: snapshot at fork.  The task spawn_user_task made starts with the
\* kernel task's FD table, CWD and CWD path; a task made by clone starts with
\* its creator's values of that instant; and a later change by one owner
\* changes what that owner alone sees.
C13_SpawnSnapshot == NsView(FirstUserId) = NsView(INIT_PARENT_ID)
C13_NsStep ==
    /\ \A t \in Tasks, c \in Tasks :
         (pc[c] = "none" /\ pc'[c] # "none" /\ new_task'[t] = c /\ pc[t] = "handler"
              /\ pc'[t] = "clone_spawn")
            => /\ NsView(c)' = NsView(t)
               /\ NsView(t)' = NsView(t)
    /\ Cardinality({o \in Owners : HasNs(o) /\ NsView(o)' # NsView(o)}) <= 1
C13_SnapshotAtFork == C13_SpawnSnapshot /\ [][C13_NsStep]_vars
\* The child holds the values its creator had when it cloned, although the
\* creator has changed all three since; the first task was seeded with a
\* kernel namespace the kernel has changed since.
C13_Witness ==
    \E c \in Tasks :
        /\ c # FirstUserId
        /\ pc[c] \notin {"none", "dead"}
        /\ NsView(c) = [r \in NsRes |-> 1]
        /\ NsView(FirstUserId) = [r \in NsRes |-> 0]
        /\ NsView(INIT_PARENT_ID)["CURRENT_DIR_PATH"] = 1

\* ---------------------------------------------------------------- SigSet

\* The positions of the bits that are 1 in the integer n.
BitsOf(n) == {i \in 0..(I32Bits - 2) : (n \div Pow2(i)) % 2 = 1}
SigSetOf(w0, w1) == [bits |-> <<w0, w1>>]
\* A plausible slip: the range taken as 1..=32.
SigValid_Inclusive(signal) == 1 <= signal /\ signal <= SignalLimit

\* (1..32).contains(&signal)
SigValid(signal) == 1 <= signal /\ signal < SignalLimit
\* bits.trailing_zeros()
trailing_zeros(bits) == CHOOSE i \in bits : \A j \in bits : i <= j

\* A plausible slip: the bit of signal s taken as 1 << s.
add_ShiftBySignal(S, signal) ==
    IF ~SigValid(signal) THEN [set |-> S, ret |-> SigRet(FALSE, 0)]
    ELSE LET bit == signal
         IN  IF bit \in S.bits[1] THEN [set |-> S, ret |-> SigRet(FALSE, 0)]
             ELSE [set |-> SigSetOf(S.bits[1] \cup {bit}, S.bits[2]),
                   ret |-> SigRet(TRUE, 0)]

\* SigSet::add
add(S, signal) ==
    IF ~SigValid(signal) THEN [set |-> S, ret |-> SigRet(FALSE, 0)]
    ELSE LET bit == signal - 1
         IN  IF bit \in S.bits[1] THEN [set |-> S, ret |-> SigRet(FALSE, 0)]
             ELSE [set |-> SigSetOf(S.bits[1] \cup {bit}, S.bits[2]),
                   ret |-> SigRet(TRUE, 0)]

\* SigSet::remove
remove(S, signal) ==
    IF ~SigValid(signal) THEN [set |-> S, ret |-> SigRet(FALSE, 0)]
    ELSE LET bit == signal - 1
         IN  IF bit \notin S.bits[1] THEN [set |-> S, ret |-> SigRet(FALSE, 0)]
             ELSE [set |-> SigSetOf(S.bits[1] \ {bit}, S.bits[2]),
                   ret |-> SigRet(TRUE, 0)]

\* SigSet::has
has(S, signal) == SigValid(signal) /\ (signal - 1) \in S.bits[1]

\* SigSet::add_from and SigSet::remove_from: both words.
add_from(S, other) == SigSetOf(S.bits[1] \cup other.bits[1], S.bits[2] \cup other.bits[2])
remove_from(S, other) == SigSetOf(S.bits[1] \ other.bits[1], S.bits[2] \ other.bits[2])

\* A plausible slip: the bit cleared is the one of the signal number
\* returned, one above the bit found.
dequeue_ClearsReturned(S, mask) ==
    LET bits == S.bits[1] \cap mask.bits[1]
    IN  IF bits = {} THEN [set |-> S, mask |-> mask, ret |-> SigRet(FALSE, 0)]
        ELSE LET signal == trailing_zeros(bits)
             IN  [set |-> SigSetOf(S.bits[1] \ {signal + 1}, S.bits[2]),
                  mask |-> mask,
                  ret |-> SigRet(TRUE, signal + 1)]

\* SigSet::dequeue: the first words only.
dequeue(S, mask) ==
    LET bits == S.bits[1] \cap mask.bits[1]
    IN  IF bits = {} THEN [set |-> S, mask |-> mask, ret |-> SigRet(FALSE, 0)]
        ELSE LET signal == trailing_zeros(bits)
             IN  [set |-> SigSetOf(S.bits[1] \ {signal}, S.bits[2]),
                  mask |-> mask,
                  ret |-> SigRet(TRUE, signal + 1)]

\* The signal numbers handed to the per-signal operations, the sets handed
\* to the bulk operations, and the masks handed to dequeue.
SigArgs == {0, 1, 4, SignalLimit - 1, SignalLimit}
SigOthers == {SigSetOf(BitsOf(10), {}), SigSetOf({SignalLimit - 1}, {0})}
SigMasks == {SigSetOf(BitsOf(255), {}), SigSetOf({}, {0}), SigSetOf({SignalLimit - 1}, {0})}

SigDone(op, arg, m, S, ret) ==
    /\ sigset' = S
    /\ sig_mask' = m
    /\ sig_ret' = [op |-> op, arg |-> arg, ret |-> ret, before |-> sigset, mask0 |-> m]
    /\ UNCHANGED <<task_vars, rl_vars, heap_vars, ns_vars, dents_vars, unlink_vars>>

SigAdd(s) == SigDone("add", s, sig_mask, add(sigset, s).set, add(sigset, s).ret)
SigRemove(s) == SigDone("remove", s, sig_mask, remove(sigset, s).set, remove(sigset, s).ret)
SigHas(s) == SigDone("has", s, sig_mask, sigset, SigRet(has(sigset, s), 0))
\* S.add(s); S.remove(s)
SigAddRemove(s) ==
    SigDone("add_remove", s, sig_mask, remove(add(sigset, s).set, s).set,
            remove(add(sigset, s).set, s).ret)
SigAddFrom(other) ==
    SigDone("add_from", 0, other, add_from(sigset, other), SigRet(FALSE, 0))
SigRemoveFrom(other) ==
    SigDone("remove_from", 0, other, remove_from(sigset, other), SigRet(FALSE, 0))
\* TaskExt::set_signal_mask: the whole of *mask is stored.
set_signal_mask(S, mask) == mask
SigSetSignalMask(other) ==
    SigDone("set_signal_mask", 0, other, set_signal_mask(sigset, other), SigRet(FALSE, 0))
SigDequeue(m) ==
    SigDone("dequeue", 0, dequeue(sigset, m).mask, dequeue(sigset, m).set,
            dequeue(sigset, m).ret)

NextSig ==
    \/ \E s \in SigArgs : SigAdd(s) \/ SigRemove(s) \/ SigHas(s) \/ SigAddRemove(s)
    \/ \E o \in SigOthers : SigAddFrom(o) \/ SigRemoveFrom(o) \/ SigSetSignalMask(o)
    \/ \E m \in SigMasks : SigDequeue(m)
SpecSig == Init /\ [][NextSig]_vars

\* The claim C14 as the specification words it: after add(s), has(s); after
\* remove(s), not has(s); and add(s) then remove(s) leaves S as it was.
C14_AddThenRemoveUnchanged ==
    SigValid(sig_ret.arg) =>
        /\ sig_ret.op = "add" => has(sigset, sig_ret.arg)
        /\ sig_ret.op = "remove" => ~has(sigset, sig_ret.arg)
        /\ sig_ret.op = "add_remove" => sigset = sig_ret.before

\* C14, amended: for a signal s in 1..31, after add(s) has(s) is true, after
\* remove(s) has(s) is false, and add(s) then remove(s) leaves S without s:
\* unchanged when s was not in S, and with s removed when it was.  No other
\* bit of either word changes.
C14_AddRemoveAreSetOps ==
    SigValid(sig_ret.arg) =>
        LET s == sig_ret.arg
            S0 == sig_ret.before
        IN  /\ sig_ret.op = "add" =>
                 /\ has(sigset, s)
                 /\ sigset = SigSetOf(S0.bits[1] \cup {s - 1}, S0.bits[2])
                 /\ sig_ret.ret.some = ~has(S0, s)
            /\ sig_ret.op = "remove" =>
                 /\ ~has(sigset, s)
                 /\ sigset = SigSetOf(S0.bits[1] \ {s - 1}, S0.bits[2])
                 /\ sig_ret.ret.some = has(S0, s)
            /\ sig_ret.op = "add_remove" =>
                 /\ ~has(S0, s) => sigset = S0
                 /\ has(S0, s) => sigset = SigSetOf(S0.bits[1] \ {s - 1}, S0.bits[2])
                                  /\ sigset # S0
\* add(4) then remove(4) on a set that held signals 2 and 4 and a bit of the
\* second word.
C14_Witness ==
    /\ sig_ret.op = "add_remove"
    /\ sig_ret.arg = 4
    /\ sig_ret.before = SigSetOf(BitsOf(10), {0})
    /\ sigset = SigSetOf({1}, {0})

\* The number of the signal a bit of word w at position p stands for.
SignalAt(w, p) == (w - 1) * WordSize + p + 1
\* The signals of S that are in mask too, over both words.
SigCommon(S, mask) ==
    {SignalAt(1, p) : p \in S.bits[1] \cap mask.bits[1]}
        \cup {SignalAt(2, p) : p \in S.bits[2] \cap mask.bits[2]}
SigMembers(S) == SigCommon(S, S)

\* The claim C15 as the specification words it: dequeue(mask) returns None
\* exactly when S and mask have no signal in common, and otherwise the lowest
\* common signal, cleared from S with nothing else changed.
C15_DequeueNoneIffDisjoint ==
    sig_ret.op = "dequeue" =>
        LET common == SigCommon(sig_ret.before, sig_ret.mask0)
        IN  /\ ~sig_ret.ret.some <=> common = {}
            /\ sig_ret.ret.some =>
                 /\ sig_ret.ret.val \in common
                 /\ \A x \in common : sig_ret.ret.val <= x
                 /\ SigMembers(sigset) = SigMembers(sig_ret.before) \ {sig_ret.ret.val}
            /\ sig_mask = sig_ret.mask0

\* C15, amended: dequeue(mask) looks at the first words only.  It returns
\* None exactly when the first words of S and mask have no bit in common;
\* otherwise it returns the signal of their lowest common bit and clears
\* exactly that bit of S, leaving every other bit of both words of S and the
\* whole of mask unchanged.  S = {bits:[0b1010,0]} with mask =
\* {bits:[0xFF,0]} returns 2 and leaves {bits:[0b1000,0]}.
C15_DequeueFirstWord ==
    sig_ret.op = "dequeue" =>
        LET S0 == sig_ret.before
            common == S0.bits[1] \cap sig_ret.mask0.bits[1]
            got == sig_ret.ret.val - 1
        IN  /\ ~sig_ret.ret.some <=> common = {}
            /\ ~sig_ret.ret.some => sigset = S0
            /\ sig_ret.ret.some =>
                 /\ got \in common
                 /\ \A x \in common : got <= x
                 /\ sigset = SigSetOf(S0.bits[1] \ {got}, S0.bits[2])
            /\ sig_mask = sig_ret.mask0
            /\ (S0 = SigSetOf(BitsOf(10), {}) /\ sig_ret.mask0 = SigSetOf(BitsOf(255), {}))
                 => sig_ret.ret = SigRet(TRUE, 2) /\ sigset = SigSetOf(BitsOf(8), {})
\* The worked example, on a set that also holds a bit of the second word.
C15_Witness ==
    /\ sig_ret.op = "dequeue"
    /\ sig_ret.before = SigSetOf(BitsOf(10), {0})
    /\ sig_ret.mask0 = SigSetOf(BitsOf(255), {})
    /\ sig_ret.ret = SigRet(TRUE, 2)
    /\ sigset = SigSetOf(BitsOf(8), {0})

\* ------------------------------------------------------------ heap bounds

\* The values callers hand to the setters.
HeapArgs == {USER_HEAP_BASE - 1, USER_HEAP_BASE + 1}

\* TaskExt::set_heap_bottom: a plain store.
SetHeapBottom(t, bottom) ==
    /\ pc[t] # "none"
    /\ heap_bottom' = [heap_bottom EXCEPT ![t] = bottom]
    /\ UNCHANGED <<task_vars, rl_vars, heap_top, ns_vars, lib_vars>>

\* TaskExt::set_heap_top: a plain store.
SetHeapTop(t, top) ==
    /\ pc[t] # "none"
    /\ heap_top' = [heap_top EXCEPT ![t] = top]
    /\ UNCHANGED <<task_vars, rl_vars, heap_bottom, ns_vars, lib_vars>>

\* The first user task clones once; the setters are called on any task.
HeapSysnos(t) ==
    IF t = FirstUserId /\ next_id = FirstUserId + 1 THEN {"clone"} ELSE {}
HeapStep(t) ==
    \/ TrapOf(t, HeapSysnos(t))
    \/ EnterUspace(t)
    \/ HandleSyscallExit(t)
    \/ TrapReturn(t)
    \/ SysClone(t, "time")
    \/ CloneSpawn(t)
    \/ ClonePush(t)
    \/ \E v \in HeapArgs : SetHeapBottom(t, v)
    \/ \E v \in HeapArgs : SetHeapTop(t, v)
NextHeap == \E t \in Tasks : HeapStep(t)
SpecHeap == Init /\ [][NextHeap]_vars

\* C16: heap_bottom <= heap_top for every task in every reachable state,
\* whatever spawn_user, clone, set_heap_bottom and set_heap_top did.
C16_HeapOrdered ==
    \A t \in Tasks : pc[t] # "none" => heap_bottom[t] <= heap_top[t]

\* ------------------------------------------------------------ getdents64

\* DirEnt::FIXED_SIZE, and the size and alignment repr(C) gives DirEnt: the
\* fields are followed by padding up to a multiple of the u64 alignment.
FIXED_SIZE == U64Size + U64Size + U16Size + U8Size
DirEntAlign == U64Size
DirEntSize == ((FIXED_SIZE + DirEntAlign - 1) \div DirEntAlign) * DirEntAlign

\* A byte the kernel wrote without giving it a value (struct padding), and a
\* byte of user memory getdents64 did not write.
PadByte == 0 - 1
Untouched == 0 - 2
\* The user memory at buf: len bytes of buffer and whatever follows it.
MemLen == MaxBufLen + (DirEntSize - FIXED_SIZE)
FreshMem == [i \in 1..MemLen |-> Untouched]

\* The n little-endian bytes of v.
RECURSIVE LEBytes(_, _)
LEBytes(v, n) == IF n = 0 THEN <<>> ELSE <<v % 256>> \o LEBytes(v \div 256, n - 1)
\* FileType::from(entry.entry_type()) as u8
FileTypeOf(ty) ==
    CASE ty = "dir" -> FileTypeDir
      [] ty = "file" -> FileTypeReg
      [] OTHER -> FileTypeUnknown
\* DirEnt::new(ino, off, reclen, file_type) as the bytes ptr.write stores.
DirEntNew(ino, off, reclen, file_type) ==
    LEBytes(ino, U64Size) \o LEBytes(off, U64Size) \o LEBytes(reclen % Pow2(16), U16Size)
        \o LEBytes(file_type, U8Size)
        \o [i \in 1..(DirEntSize - FIXED_SIZE) |-> PadByte]
\* Bytes stored at user_buffer.add(o).
MemWrite(mem, o, bytes) ==
    [i \in 1..Len(mem) |->
        IF i - 1 >= o /\ i - 1 < o + Len(bytes) THEN bytes[i - o] ELSE mem[i]]

\* A plausible slip: the terminating NUL left out of the entry's length.
entry_length_NoNul(name) == FIXED_SIZE + Len(name)

\* let entry_length = DirEnt::FIXED_SIZE + name.len() + 1
entry_length(name) == FIXED_SIZE + Len(name) + 1

\* A plausible slip: only an empty buffer is refused.
LenTooSmall_OnlyZero(len) == len = 0

\* if len < DirEnt::FIXED_SIZE
LenTooSmall(len) == len < FIXED_SIZE

\* One turn of the loop of sys_getdents64 in state st: st.off is
\* current_offset, st.pos the directory's iterator.  The directory's mutex
\* is held for read_dir only, which hands out the entry at the iterator and
\* advances it, or fails (rdok is FALSE) and `?` returns its error.
\* ptr.write on a DirEnt pointer that is not aligned is undefined: a build
\* with the pointer checks panics, one without stores the bytes.
getdents_loop(st, d, len, addr, build, rdok) ==
    IF st.off + FIXED_SIZE + 2 > len THEN [st EXCEPT !.done = TRUE, !.res = Ok(st.off)]
    ELSE IF ~rdok
    THEN [st EXCEPT !.reads = @ + 1, !.done = TRUE,
                    !.res = Err(LinuxErrorOf("BadState"))]
    ELSE IF st.pos >= Len(d)
    THEN [st EXCEPT !.reads = @ + 1, !.done = TRUE, !.res = Ok(st.off)]
    ELSE
        LET entry == d[st.pos + 1]
            elen == entry_length(entry.name)
            rd == [st EXCEPT !.pos = @ + 1, !.reads = @ + 1]
        IN  IF rd.off + elen > len
            THEN [rd EXCEPT !.dropped = Append(@, st.pos + 1), !.done = TRUE,
                            !.res = Ok(rd.off)]
            ELSE IF build = "debug" /\ (addr + rd.off) % DirEntAlign # 0
            THEN [rd EXCEPT !.panicked = TRUE, !.done = TRUE]
            ELSE
              LET hdr == DirEntNew(DirEntIno, rd.off + elen, elen, FileTypeOf(entry.type))
                  m1 == MemWrite(rd.mem, rd.off, hdr)
                  m2 == MemWrite(m1, rd.off + FIXED_SIZE, entry.name)
                  m3 == MemWrite(m2, rd.off + FIXED_SIZE + Len(entry.name), <<0>>)
              IN  [rd EXCEPT !.mem = m3, !.off = @ + elen,
                             !.emitted = Append(@, st.pos + 1)]

\* sys_getdents64(fd, buf, len) before its loop: buf.get_as_bytes(len)?, the
\* length check, Directory::from_fd(fd)?; Ok(0) stands for all three passed.
sys_getdents64(len, bufok, fdok) ==
    IF ~bufok THEN Err("EFAULT")
    ELSE IF LenTooSmall(len) THEN Err("EINVAL")
    ELSE IF ~fdok THEN Err("EBADF")
    ELSE Ok(0)

\* The directories, the buffer lengths, the addresses of buf modulo the
\* DirEnt alignment, and the builds.
DirEntryOf(name, ty) == [name |-> name, type |-> ty]
DirListings ==
    {<<>>,
     <<DirEntryOf(<<97>>, "file"), DirEntryOf(<<98, 98>>, "dir")>>,
     <<DirEntryOf(<<100, 100, 100, 100>>, "file"), DirEntryOf(<<97>>, "other"),
       DirEntryOf(<<98, 98>>, "file")>>}
DentsLens ==
    {10, FIXED_SIZE, FIXED_SIZE + 2, FIXED_SIZE + 3, 2 * FIXED_SIZE + 5, MaxBufLen}
BufAddrs == {0, 4}
Builds == {"release", "debug"}

\* A getdents64 call on the open directory begins, with a buffer the caller
\* has not written to: the checks before the loop.
SysGetdents64(len, bufok, fdok, addr, build) ==
    /\ ~gd.panicked
    /\ gd.pc # "loop"
    /\ LET chk == sys_getdents64(len, bufok, fdok)
       IN  gd' = [gd EXCEPT !.pc = IF chk.ok THEN "loop" ELSE "done",
                            !.called = ~chk.ok, !.len = len, !.bufok = bufok,
                            !.fdok = fdok, !.addr = addr, !.build = build,
                            !.res = chk, !.pos0 = dir_pos, !.off = 0, !.reads = 0,
                            !.emitted = <<>>, !.dropped = <<>>,
                            !.taken0 = Cardinality(gd.taken)]
    /\ ubuf' = FreshMem
    /\ UNCHANGED <<task_vars, rl_vars, heap_vars, ns_vars, sig_vars, unlink_vars, dir, dir_pos>>

\* One turn of the loop of the call in progress; the last one returns.
GetdentsTurn(rdok) ==
    /\ gd.pc = "loop"
    /\ LET st == [off |-> gd.off, pos |-> dir_pos, mem |-> ubuf, reads |-> gd.reads,
                  emitted |-> gd.emitted, dropped |-> gd.dropped, panicked |-> FALSE,
                  done |-> FALSE, res |-> gd.res]
           r == getdents_loop(st, dir, gd.len, gd.addr, gd.build, rdok)
       IN  /\ dir_pos' = r.pos
           /\ ubuf' = r.mem
           /\ gd' = [gd EXCEPT !.pc = IF r.done THEN "done" ELSE "loop",
                               !.called = r.done, !.res = r.res, !.off = r.off,
                               !.panicked = r.panicked, !.reads = r.reads,
                               !.emitted = r.emitted, !.dropped = r.dropped,
                               !.log = gd.log \o SubSeq(r.emitted, Len(gd.emitted) + 1,
                                                        Len(r.emitted))]
    /\ UNCHANGED <<task_vars, rl_vars, heap_vars, ns_vars, sig_vars, unlink_vars, dir>>

\* Another task that shares the directory calls read_dir on it, under the
\* directory's mutex: the iterator moves on by one entry.
OtherReadDir ==
    /\ ~gd.panicked
    /\ dir_pos < Len(dir)
    /\ dir_pos' = dir_pos + 1
    /\ gd' = [gd EXCEPT !.taken = @ \cup {dir_pos + 1}]
    /\ UNCHANGED <<task_vars, rl_vars, heap_vars, ns_vars, sig_vars, unlink_vars, dir, ubuf>>

NextDents ==
    \/ \E len \in DentsLens, bufok \in BOOLEAN, fdok \in BOOLEAN, addr \in BufAddrs,
          build \in Builds : SysGetdents64(len, bufok, fdok, addr, build)
    \/ \E rdok \in BOOLEAN : GetdentsTurn(rdok)
    \/ OtherReadDir
InitDents ==
    /\ InitTask(GlobalNs) /\ SigIdle /\ UnlinkIdle
    /\ dir \in DirListings
    /\ dir_pos = 0
    /\ ubuf = FreshMem
    /\ gd = NoDents
SpecDents == InitDents /\ [][NextDents]_vars

\* The entries other tasks have read from the directory since the call
\* began.
OthersRead == Cardinality(gd.taken) - gd.taken0

\* C17: after getdents64 returns, the iterator stands right after the last
\* entry emitted: an entry read but not fitting is not consumed, so the
\* calls so far have emitted every entry before the iterator exactly once,
\* in order.
C17_IteratorAfterLastEmitted ==
    (gd.called /\ ~gd.panicked) =>
        /\ gd.dropped = <<>>
        /\ dir_pos = gd.pos0 + Len(gd.emitted) + OthersRead
        /\ Range(gd.log) \cup gd.taken = 1..dir_pos
        /\ Len(gd.log) + Cardinality(gd.taken) = dir_pos
        /\ \A i \in 1..(Len(gd.log) - 1) : gd.log[i] < gd.log[i + 1]

\* What a reader of linux_dirent64 records finds in the first n bytes of mem:
\* the d_reclen at offset 16 of each record, its name from offset 19 up to
\* the first NUL, and the next record d_reclen bytes on.
ByteAt(mem, o) == mem[o + 1]
RECURSIVE NameAt(_, _, _)
NameAt(mem, o, end) ==
    IF o >= end THEN [ok |-> FALSE, name |-> <<>>]
    ELSE IF ByteAt(mem, o) = 0 THEN [ok |-> TRUE, name |-> <<>>]
    ELSE LET rest == NameAt(mem, o + 1, end)
         IN  [ok |-> rest.ok, name |-> <<ByteAt(mem, o)>> \o rest.name]
RECURSIVE ParseDents(_, _, _)
ParseDents(mem, o, n) ==
    IF o = n THEN [ok |-> TRUE, ents |-> <<>>]
    ELSE IF o + FIXED_SIZE + 1 > n THEN [ok |-> FALSE, ents |-> <<>>]
    ELSE
        LET reclen == ByteAt(mem, o + 2 * U64Size)
                        + 256 * ByteAt(mem, o + 2 * U64Size + 1)
            nm == NameAt(mem, o + FIXED_SIZE, o + reclen)
        IN  IF reclen < FIXED_SIZE + 1 \/ o + reclen > n \/ ~nm.ok
            THEN [ok |-> FALSE, ents |-> <<>>]
            ELSE LET rest == ParseDents(mem, o + reclen, n)
                 IN  [ok |-> rest.ok,
                      ents |-> <<[at |-> o, reclen |-> reclen, name |-> nm.name]>>
                                  \o rest.ents]
RECURSIVE SumReclen(_)
SumReclen(ents) == IF ents = <<>> THEN 0 ELSE Head(ents).reclen + SumReclen(Tail(ents))

\* C18: when getdents64 returns a length, the buffer holds the emitted
\* entries packed from offset 0: each d_reclen is header size + name length
\* + 1, entry i starts at the sum of the reclens before it, each name is
\* followed by its NUL, and the returned length is the sum of the reclens
\* and at most len.
C18_EntriesPacked ==
    (gd.called /\ ~gd.panicked /\ gd.res.ok) =>
        LET P == ParseDents(ubuf, 0, gd.res.val)
        IN  /\ P.ok
            /\ Len(P.ents) = Len(gd.emitted)
            /\ \A i \in 1..Len(P.ents) :
                 /\ P.ents[i].name = dir[gd.emitted[i]].name
                 /\ P.ents[i].reclen = FIXED_SIZE + Len(dir[gd.emitted[i]].name) + 1
                 /\ P.ents[i].at = SumReclen(SubSeq(P.ents, 1, i - 1))
                 /\ ByteAt(ubuf, P.ents[i].at + FIXED_SIZE + Len(P.ents[i].name)) = 0
            /\ gd.res.val = SumReclen(P.ents)
            /\ gd.res.val <= gd.len
\* "a" and "bb" emitted into a buffer of 64 bytes: 21 + 22 = 43 returned.
C18_Witness ==
    /\ gd.called /\ gd.res.ok /\ ~gd.panicked
    /\ gd.len = MaxBufLen
    /\ Len(gd.emitted) = 2
    /\ dir[gd.emitted[1]].name = <<97>>
    /\ dir[gd.emitted[2]].name = <<98, 98>>
    /\ gd.res.val = 2 * FIXED_SIZE + 5

\* C19: getdents64 with an accessible buffer shorter than the fixed entry
\* header (len = 10 for one) returns -EINVAL; it reads no directory entry
\* and leaves the iterator where it was, the descriptor not even looked up.
C19_ShortBufferRejected ==
    (gd.called /\ gd.len < FIXED_SIZE) =>
        /\ gd.bufok => Ans(gd.res) = 0 - code("EINVAL")
        /\ gd.reads = 0
        /\ dir_pos = gd.pos0 + OthersRead
        /\ gd.emitted = <<>> /\ ubuf = FreshMem
\* len = 10 on a directory read half way.
C19_Witness ==
    /\ gd.called /\ gd.len = 10 /\ gd.bufok
    /\ gd.res = Err("EINVAL")
    /\ gd.pos0 = 1 /\ dir_pos = 1 /\ Len(dir) > 1

\* ---------------------------------------------------------------- unlink

AT_FDCWD == 0 - 100
\* A descriptor that is not open.
BadFd == 7

\* sys_unlinkat(dir_fd, path, flags) on the file system f: the path string
\* read from user memory, handle_file_path, then remove_dir under
\* AT_REMOVEDIR, else metadata, the directory test and remove_link.
sys_unlinkat(f, dir_fd, pathok, path, flags) ==
    IF ~pathok THEN [fs |-> f, res |-> Err("EFAULT")]
    ELSE IF dir_fd # AT_FDCWD THEN [fs |-> f, res |-> Err("EBADF")]
    ELSE IF flags = AT_REMOVEDIR
    THEN IF path \in f.dirs
         THEN [fs |-> [f EXCEPT !.dirs = @ \ {path}], res |-> Ok(0)]
         ELSE IF path \in f.files THEN [fs |-> f, res |-> Err("ENOTDIR")]
         ELSE [fs |-> f, res |-> Err(LinuxErrorOf("NotFound"))]
    ELSE IF path \notin f.files \cup f.dirs
         THEN [fs |-> f, res |-> Err(LinuxErrorOf("NotFound"))]
         ELSE IF path \in f.dirs THEN [fs |-> f, res |-> Err("EISDIR")]
         ELSE [fs |-> [f EXCEPT !.files = @ \ {path}], res |-> Ok(0)]

\* sys_unlink(path): sys_unlinkat(AT_FDCWD, path, 0); Ok(0)
sys_unlink(f, pathok, path) ==
    [fs |-> sys_unlinkat(f, AT_FDCWD, pathok, path, 0).fs, res |-> Ok(0)]

\* axfs::api::create_dir(path) on the file system f.
create_dir(f, path) ==
    IF path \in f.files \cup f.dirs THEN [fs |-> f, res |-> Err("EEXIST")]
    ELSE [fs |-> [f EXCEPT !.dirs = @ \cup {path}], res |-> Ok(0)]

\* path.starts_with("/")
AbsolutePaths == {"/e"}
StartsWithSlash(path) == path \in AbsolutePaths

\* sys_mkdirat(dirfd, path, mode): the path string read from user memory,
\* the test of a relative path against dirfd, then create_dir; mode is
\* only logged.
sys_mkdirat(f, dirfd, pathok, path, mode) ==
    IF ~pathok THEN [fs |-> f, res |-> Err("EFAULT")]
    ELSE IF ~StartsWithSlash(path) /\ dirfd # AT_FDCWD THEN [fs |-> f, res |-> Err("EINVAL")]
    ELSE create_dir(f, path)

\* sys_mkdir(path, mode): the path string, then create_dir.
sys_mkdir(f, pathok, path, mode) ==
    IF ~pathok THEN [fs |-> f, res |-> Err("EFAULT")]
    ELSE create_dir(f, path)

\* HARDLINK_MANAGER.create_link(new_path, old_path) on the file system f.
create_link(f, new_path, old_path) ==
    IF old_path \notin f.files THEN [fs |-> f, res |-> Err(LinuxErrorOf("NotFound"))]
    ELSE [fs |-> [f EXCEPT !.files = @ \cup {new_path}], res |-> Ok(0)]

\* sys_linkat(old_dirfd, old_path, new_dirfd, new_path, flags): the two
\* path strings, handle_file_path of the old and of the new path, then
\* create_link; flags are only logged.
sys_linkat(f, old_dirfd, oldok, old_path, new_dirfd, newok, new_path, flags) ==
    IF ~oldok \/ ~newok THEN [fs |-> f, res |-> Err("EFAULT")]
    ELSE IF old_dirfd # AT_FDCWD \/ new_dirfd # AT_FDCWD THEN [fs |-> f, res |-> Err("EBADF")]
    ELSE create_link(f, new_path, old_path)

FsPaths == {"f", "g", "d", "x"} \cup AbsolutePaths
FsStates == {[files |-> fl, dirs |-> ds] : fl \in SUBSET {"f", "g"}, ds \in SUBSET {"d"}}

UnlinkDone(op, dir_fd, pathok, path, flags, r) ==
    /\ fs' = r.fs
    /\ ul' = [op |-> op, dir_fd |-> dir_fd, pathok |-> pathok, path |-> path,
              flags |-> flags, res |-> r.res, fs0 |-> fs]
    /\ UNCHANGED <<task_vars, rl_vars, heap_vars, ns_vars, sig_vars, dents_vars>>
SysUnlinkat(dir_fd, pathok, path, flags) ==
    UnlinkDone("unlinkat", dir_fd, pathok, path, flags,
               sys_unlinkat(fs, dir_fd, pathok, path, flags))
SysUnlink(pathok, path) ==
    UnlinkDone("unlink", AT_FDCWD, pathok, path, 0, sys_unlink(fs, pathok, path))

SysMkdirat(dirfd, pathok, path, mode) ==
    UnlinkDone("mkdirat", dirfd, pathok, path, mode,
               sys_mkdirat(fs, dirfd, pathok, path, mode))
\* sys_mkdir is routed on x86_64 only.
SysMkdir(pathok, path, mode) ==
    /\ arch = "x86_64"
    /\ UnlinkDone("mkdir", AT_FDCWD, pathok, path, mode, sys_mkdir(fs, pathok, path, mode))
SysLinkat(old_dirfd, oldok, old_path, new_dirfd, newok, new_path, flags) ==
    UnlinkDone("linkat", new_dirfd, oldok /\ newok, new_path, flags,
               sys_linkat(fs, old_dirfd, oldok, old_path, new_dirfd, newok, new_path, flags))

DirFds == {AT_FDCWD, BadFd}
\* The paths handed to mkdir and mkdirat, and the old and new paths handed
\* to linkat.
MkdirPaths == {"d", "/e"}
LinkOldPaths == {"f", "x"}
LinkNewPaths == {"g"}
NextUnlink ==
    \E pathok \in BOOLEAN :
        \/ \E path \in FsPaths :
               \/ SysUnlink(pathok, path)
               \/ \E dir_fd \in DirFds, flags \in {0, AT_REMOVEDIR} :
                      SysUnlinkat(dir_fd, pathok, path, flags)
        \/ \E path \in MkdirPaths, mode \in {0, 1} :
               \/ SysMkdir(pathok, path, mode)
               \/ \E dirfd \in DirFds : SysMkdirat(dirfd, pathok, path, mode)
        \/ \E old_dirfd \in DirFds, new_dirfd \in DirFds, oldok \in BOOLEAN,
              old_path \in LinkOldPaths, new_path \in LinkNewPaths, flags \in {0, 1} :
               SysLinkat(old_dirfd, oldok, old_path, new_dirfd, pathok, new_path, flags)
InitUnlink ==
    /\ InitTask(GlobalNs) /\ SigIdle /\ DentsIdle
    /\ fs \in FsStates
    /\ ul = NoUnlink
SpecUnlink == InitUnlink /\ [][NextUnlink]_vars

\* C20: sys_unlink(path) propagates the result of
\* sys_unlinkat(AT_FDCWD, path, 0): 0 exactly when that call succeeds, and
\* its error when it fails.
C20_UnlinkPropagates ==
    ul.op = "unlink" =>
        ul.res = sys_unlinkat(ul.fs0, AT_FDCWD, ul.pathok, ul.path, 0).res

\* ---------------------------------------------------------------- rlimits

\* The set_rlimit_* and get_rlimit_* methods of TaskExt, on the rlimit
\* fields ext of one task.
\* A plausible slip: a setter copied from its neighbour that still stores
\* into the neighbour's field.
set_rlimit_stack_IntoAs(ext, new_value) == [ext EXCEPT !.rlimit_as = new_value]

set_rlimit_stack(ext, new_value) == [ext EXCEPT !.rlimit_stack = new_value]
set_rlimit_nofile(ext, new_value) == [ext EXCEPT !.rlimit_nofile = new_value]
set_rlimit_cpu(ext, new_value) == [ext EXCEPT !.rlimit_cpu = new_value]
set_rlimit_data(ext, new_value) == [ext EXCEPT !.rlimit_data = new_value]
set_rlimit_fsize(ext, new_value) == [ext EXCEPT !.rlimit_fsize = new_value]
set_rlimit_as(ext, new_value) == [ext EXCEPT !.rlimit_as = new_value]
\* RLIMIT_CORE has no accessor methods: its public Cell is set and read as
\* it is.
rlimit_asc_set(ext, new_value) == [ext EXCEPT !.rlimit_asc = new_value]
get_rlimit_stack(ext) == ext.rlimit_stack
get_rlimit_nofile(ext) == ext.rlimit_nofile
get_rlimit_cpu(ext) == ext.rlimit_cpu
get_rlimit_data(ext) == ext.rlimit_data
get_rlimit_fsize(ext) == ext.rlimit_fsize
get_rlimit_as(ext) == ext.rlimit_as
rlimit_asc_get(ext) == ext.rlimit_asc

SetRlimitOf(kind, ext, v) ==
    CASE kind = "AS" -> set_rlimit_as(ext, v)
      [] kind = "CORE" -> rlimit_asc_set(ext, v)
      [] kind = "CPU" -> set_rlimit_cpu(ext, v)
      [] kind = "DATA" -> set_rlimit_data(ext, v)
      [] kind = "FSIZE" -> set_rlimit_fsize(ext, v)
      [] kind = "NOFILE" -> set_rlimit_nofile(ext, v)
      [] kind = "STACK" -> set_rlimit_stack(ext, v)
GetRlimitOf(kind, ext) ==
    CASE kind = "AS" -> get_rlimit_as(ext)
      [] kind = "CORE" -> rlimit_asc_get(ext)
      [] kind = "CPU" -> get_rlimit_cpu(ext)
      [] kind = "DATA" -> get_rlimit_data(ext)
      [] kind = "FSIZE" -> get_rlimit_fsize(ext)
      [] kind = "NOFILE" -> get_rlimit_nofile(ext)
      [] kind = "STACK" -> get_rlimit_stack(ext)

\* The pairs handed to the setters.
RlimitArgs == {Rlimit(0, 0), Rlimit(1024, 4096)}

\* Task t sets its limit of one kind.
SetRlimit(t, kind, v) ==
    /\ pc[t] # "none"
    /\ rl_ret.count < MaxRlimitSets
    /\ rlimits' = [rlimits EXCEPT ![t] = SetRlimitOf(kind, @, v)]
    /\ rl_ret' = [task |-> t, kind |-> kind, val |-> v, before |-> rlimits[t],
                  count |-> rl_ret.count + 1]
    /\ UNCHANGED <<task_vars, heap_vars, ns_vars, lib_vars>>

\* The first user task clones once and its child exits; the limits of every
\* task are set, those of an exited task that is not yet reaped included.
RlimitSysnos(t) ==
    IF t = FirstUserId
    THEN (IF next_id = FirstUserId + 1 THEN {"clone"} ELSE {})
    ELSE {"exit"}
RlimitStep(t) ==
    \/ TrapOf(t, RlimitSysnos(t))
    \/ EnterUspace(t)
    \/ HandleSyscallExit(t)
    \/ TrapReturn(t)
    \/ SysClone(t, "time")
    \/ SysExit(t, "time")
    \/ CloneSpawn(t)
    \/ ClonePush(t)
    \/ \E kind \in RlimitKinds, v \in RlimitArgs : SetRlimit(t, kind, v)
NextRlimit == \E t \in Tasks : RlimitStep(t)
SpecRlimit == Init /\ [][NextRlimit]_vars

\* C21: every new TaskExt has (65535, 65535) for each of the seven kinds;
\* after a set of one kind a get of that kind returns the pair set, and the
\* gets of the other six return what they returned before.
C21_NewTaskDefaults ==
    \A c \in Tasks :
        (pc[c] = "none" /\ pc'[c] # "none") =>
            \A k \in RlimitKinds :
                GetRlimitOf(k, rlimits'[c]) = Rlimit(RLIM_DEFAULT, RLIM_DEFAULT)
C21_SetThenGet ==
    rl_ret.kind \in RlimitKinds =>
        /\ GetRlimitOf(rl_ret.kind, rlimits[rl_ret.task]) = rl_ret.val
        /\ \A k \in RlimitKinds \ {rl_ret.kind} :
             GetRlimitOf(k, rlimits[rl_ret.task]) = GetRlimitOf(k, rl_ret.before)
C21_FirstTaskDefaults ==
    rl_ret.count = 0 =>
        \A k \in RlimitKinds :
            GetRlimitOf(k, rlimits[FirstUserId]) = Rlimit(RLIM_DEFAULT, RLIM_DEFAULT)
C21_RlimitsIndependent ==
    [](C21_SetThenGet /\ C21_FirstTaskDefaults) /\ [][C21_NewTaskDefaults]_vars
\* The AS limit of a child that has exited and is not reaped has been set;
\* its other limits are the defaults.
C21_SetOnExited ==
    \E c \in Tasks :
        /\ pc[c] = "dead" /\ rl_ret.task = c /\ rl_ret.kind = "AS"
        /\ rl_ret.before = TaskExtNewRlimits
        /\ get_rlimit_as(rlimits[c]) = Rlimit(0, 0)
        /\ get_rlimit_cpu(rlimits[c]) = RlimitDefault
\* A cloned task has set its STACK limit after its creator set its own
\* NOFILE limit; the child's NOFILE is still the default.
C21_Witness ==
    \E c \in Tasks :
        /\ c # FirstUserId
        /\ rl_ret.task = c /\ rl_ret.kind = "STACK" /\ rl_ret.val = Rlimit(1024, 4096)
        /\ get_rlimit_stack(rlimits[c]) = Rlimit(1024, 4096)
        /\ get_rlimit_nofile(rlimits[c]) = RlimitDefault
        /\ get_rlimit_nofile(rlimits[FirstUserId]) = Rlimit(0, 0)

\* ---------------------------------------------------------------- family

\* The first task and its first child clone and wait for any child; every
\* task but the first exits.
FamilySysnos(t) ==
    IF t = FirstUserId THEN {"clone", "wait4"}
    ELSE IF t = FirstUserId + 1 THEN {"clone", "wait4", "exit"}
    ELSE {"exit"}
FamilyStep(t) ==
    \/ TrapWithin(t, FamilySysnos(t), MaxFamilyTraps)
    \/ EnterUspace(t)
    \/ HandleSyscallExit(t)
    \/ TrapReturn(t)
    \/ SysExit(t, "time")
    \/ SysClone(t, "time")
    \/ CloneSpawn(t)
    \/ ClonePush(t)
    \/ SysWait4(t, "time")
    \/ WaitScan(t)
    \/ WaitYield(t)
    \/ WaitReturn(t)
    \/ WaitRetry(t)
NextFamily == \E t \in Tasks : FamilyStep(t)
SpecFamily == Init /\ [][NextFamily]_vars

\* ------------------------------------------------------------------ wait

\* A parent that clones as many children as there are ids and waits, with
\* every pid and pointer; each child exits.
WaitSysnos(t) ==
    IF t = FirstUserId THEN {"wait4", "clone"} ELSE {"exit"}
WaitStep(t) ==
    \/ TrapWithin(t, WaitSysnos(t), MaxWaitTraps)
    \/ EnterUspace(t)
    \/ HandleSyscallExit(t)
    \/ TrapReturn(t)
    \/ SysExit(t, "wait")
    \/ SysClone(t, "time")
    \/ CloneSpawn(t)
    \/ ClonePush(t)
    \/ SysWait4(t, "wait")
    \/ WaitScan(t)
    \/ WaitYield(t)
    \/ WaitReturn(t)
    \/ WaitRetry(t)
NextWait == \E t \in Tasks : WaitStep(t)
SpecWait == Init /\ [][NextWait]_vars

\* Task t is back from wait_pid(pid, ptr) with result r.
WaitReturned(t) == pc[t] = "ret" /\ cur[t].sys = "wait4"
\* The sequence s without its element c, the rest in order.
Without(s, c) == SelectSeq(s, LAMBDA x : x # c)
\* The position of c in s.
IndexOf(s, c) == CHOOSE i \in 1..Len(s) : s[i] = c

\* C22: wait with pid <= 0 reaps the first child in children order that is
\* Exited: it returns that child's id, writes that child's exit code << 8
\* where a pointer is given, removes exactly that child and keeps the
\* others in their order.
C22_ReapsFirstExited ==
    \A t \in Tasks :
        (WaitReturned(t) /\ cur[t].a0 <= 0 /\ wait_res[t].kind = "Ok") =>
            LET c == wait_res[t].val
                kids == wl[t].kids0
            IN  /\ InList(c, kids)
                /\ pc[c] = "dead"
                /\ \A i \in 1..(IndexOf(kids, c) - 1) : kids[i] \notin wl[t].dead0
                /\ result[t] = Ok(c)
                /\ cur[t].a1 # 0 => status_word[t] = Shl8(exit_code[c])
                /\ children[t] = Without(kids, c)
\* Of three children the second and the third had exited, with different
\* exit codes, and the first had not: wait(-1) returned the second, wrote
\* its status word and left the first and the third in their order.
C22_Witness ==
    \E t \in Tasks :
        /\ WaitReturned(t) /\ cur[t].a0 = 0 - 1 /\ cur[t].a1 # 0
        /\ wl[t].kids0 = <<FirstUserId + 1, FirstUserId + 2, FirstUserId + 3>>
        /\ wl[t].dead0 = {FirstUserId + 2, FirstUserId + 3}
        /\ exit_code[FirstUserId + 2] = 7
        /\ exit_code[FirstUserId + 3] = 8388608
        /\ wait_res[t] = AxOk(FirstUserId + 2)
        /\ status_word[t] = 1792
        /\ children[t] = <<FirstUserId + 1, FirstUserId + 3>>

\* The children of t that pid selects: all of them for pid <= 0, the one
\* whose id is pid otherwise.
WaitMatched(t) ==
    LET kids == wl[t].kids0
    IN  IF cur[t].a0 <= 0 THEN {kids[i] : i \in 1..Len(kids)}
        ELSE {kids[i] : i \in 1..Len(kids)} \cap {cur[t].a0}
\* wait_pid of t has ended (returned an error, or is about to be retried)
\* without reaping.
WaitEndedEmpty(t) ==
    /\ cur[t].sys = "wait4"
    /\ pc[t] \in {"ret", "wait_retry"}
    /\ wait_res[t].kind = "Err"
\* The status word of t is written in wait_pid only by a scan that finds an
\* exited child.
WaitWritesOnlyOnReap ==
    \A t \in Tasks :
        /\ (pc[t] = "wait_scan" /\ wl'[t].status # "Exited") =>
               status_word'[t] = status_word[t]
        /\ pc[t] \in {"wait_post", "wait_retry"} => status_word'[t] = status_word[t]
\* The children of t change in wait_pid only when a child is reaped.
WaitKeepsChildren ==
    \A t \in Tasks :
        (pc[t] = "wait_post" /\ wl[t].status # "Exited") =>
            children'[t] = children[t]
\* The result of an empty wait, its cause and the number of yields.
WaitEmptyResult ==
    \A t \in Tasks :
        WaitEndedEmpty(t) =>
            /\ wait_res[t].err \in {"NotExist", "Running"}
            /\ wait_res[t].err = "NotExist" <=> WaitMatched(t) = {}
            /\ wait_res[t].err = "Running" =>
                   /\ cur[t].a0 <= 0
                   /\ wl[t].kids0 # <<>>
                   /\ \A i \in 1..Len(wl[t].kids0) : wl[t].kids0[i] \notin wl[t].dead0
                   /\ wl[t].yields = 1
            /\ wait_res[t].err = "NotExist" => wl[t].yields = 0
            /\ children[t] = wl[t].kids0

\* C23: a wait that reaps nothing answers NotExist exactly when no child
\* matched pid and Running when pid <= 0 and no child has exited; children
\* and the status word are unchanged, and the task yields once for Running
\* and not at all for NotExist.
C23_EmptyWait ==
    /\ []WaitEmptyResult
    /\ [][WaitWritesOnlyOnReap /\ WaitKeepsChildren]_vars
\* A parent with a child has waited for a positive pid that is no child of
\* its own and is told NotExist without a yield.
C23_NoSuchChild ==
    \E t \in Tasks :
        /\ WaitEndedEmpty(t) /\ wl[t].kids0 # <<>>
        /\ cur[t].a0 > 0 /\ wait_res[t].err = "NotExist" /\ wl[t].yields = 0
\* A parent whose only children still run has waited for any of them and
\* is told Running after one yield.
C23_Witness ==
    \E t \in Tasks :
        /\ WaitEndedEmpty(t)
        /\ wl[t].kids0 # <<>>
        /\ cur[t].a0 <= 0 /\ wait_res[t].err = "Running" /\ wl[t].yields = 1

\* Task t is in, or back from, a wait_pid whose pid is the id of one of its
\* children.
WaitForChild(t) ==
    /\ cur[t].sys = "wait4" /\ cur[t].a0 > 0
    /\ pc[t] \in {"wait_scan", "wait_post", "wait_retry", "ret"}
    /\ InList(cur[t].a0, wl[t].kids0)
\* The loop of such a wait ends only once the child has exited, and up to
\* the removal the child is still in children.
WaitBlocksUntilExit ==
    \A t \in Tasks :
        (WaitForChild(t) /\ pc[t] = "wait_post") =>
            /\ pc[cur[t].a0] = "dead"
            /\ wl[t].status = "Exited"
            /\ children[t] = wl[t].kids0
            /\ children[t][wl[t].exit_task_id + 1] = cur[t].a0
\* Such a wait returns the child's id, has written its exit code << 8 and
\* has removed that child only.
WaitReapsThatChild ==
    \A t \in Tasks :
        (WaitForChild(t) /\ pc[t] \in {"wait_retry", "ret"}) =>
            LET c == cur[t].a0
            IN  /\ pc[t] = "ret"
                /\ pc[c] = "dead"
                /\ wait_res[t] = AxOk(c)
                /\ result[t] = Ok(c)
                /\ cur[t].a1 # 0 => status_word[t] = Shl8(exit_code[c])
                /\ children[t] = Without(wl[t].kids0, c)

\* C24: wait with pid > 0 equal to a child's id goes on only when that
\* child has exited, then returns its id, writes exit code << 8 and removes
\* exactly that child, although the scan and the removal by index are two
\* critical sections with other tasks running in between.
C24_WaitForPid == WaitBlocksUntilExit /\ WaitReapsThatChild
\* The parent of two children has waited for the younger, which had exited
\* with a non-zero code, and keeps the elder.
C24_Witness ==
    \E t \in Tasks :
        /\ WaitForChild(t) /\ pc[t] = "ret"
        /\ cur[t].a0 = FirstUserId + 2 /\ cur[t].a1 # 0
        /\ wl[t].kids0 = <<FirstUserId + 1, FirstUserId + 2>>
        /\ exit_code[FirstUserId + 2] # 0
        /\ status_word[t] = Shl8(exit_code[FirstUserId + 2])
        /\ children[t] = <<FirstUserId + 1>>

\* ------------------------------------------------------------ clone
\* One task that clones on each target, with and without a stack and with
\* flags the kernel knows and flags it does not; it waits, the children
\* exit.
CloneSysnos(t) ==
    IF t = FirstUserId
    THEN (IF next_id = FirstUserId + 1 THEN {"clone"} ELSE {"wait4"})
    ELSE {"exit"}
CloneStep(t) ==
    \/ TrapOf(t, CloneSysnos(t))
    \/ EnterUspace(t)
    \/ HandleSyscallExit(t)
    \/ TrapReturn(t)
    \/ SysExit(t, "time")
    \/ SysClone(t, "clone")
    \/ \E p \in ParentArgs : SetParent(t, p)
    \/ \E frame \in TrapFrameArgs : WriteTrapframe(t, frame)
    \/ CloneSpawn(t)
    \/ ClonePush(t)
    \/ SysWait4(t, "time")
    \/ WaitScan(t)
    \/ WaitYield(t)
    \/ WaitReturn(t)
    \/ WaitRetry(t)
NextClone == \E t \in Tasks : CloneStep(t)
InitClone ==
    InitTaskOn(CloneArchs, GlobalNs) /\ SigIdle /\ DentsIdle /\ UnlinkIdle
SpecClone == InitClone /\ [][NextClone]_vars

\* Task t has come back from a clone_task that made a task.
CloneReturned(t) ==
    pc[t] = "ret" /\ cur[t].sys = "clone" /\ core_res[t].kind = "Ok"
\* The parent gets the id of the task it made, which is that task's proc_id
\* and is in the parent's children.
CloneReturnsChildId ==
    \A t \in Tasks :
        CloneReturned(t) =>
            LET c == core_res[t].val
            IN  /\ c = new_task[t]
                /\ c # t
                /\ proc_id[c] = c
                /\ result[t] = Ok(c)
                /\ InList(c, children[t])
\* The user context clone_task gives the child, from the parent's trap frame
\* and the stack argument.
CloneMakesChildContext ==
    \A t \in Tasks :
        (pc[t] = "handler" /\ pc'[t] = "clone_spawn") =>
            LET c == new_task'[t]
                stack == cur'[t].a1
            IN  /\ uctx'[c].rv = 0
                /\ uctx'[c].sp = (IF stack = 0 THEN tf[t].sp ELSE stack)
                /\ uctx'[c].ip = (IF arch \in {"riscv64", "loongarch64"}
                                  THEN tf[t].ip + 4 ELSE tf[t].ip)
                /\ tf'[t] = tf[t]
\* The child enters user mode with that context.
CloneChildStartsThere ==
    \A t \in Tasks :
        (pc[t] = "entry" /\ pc'[t] = "user" /\ t # FirstUserId) =>
            /\ uctx'[t] = uctx[t]
            /\ uctx[t].rv = 0

\* C25: on a successful clone the parent receives the new task's id, the
\* child's proc_id, and the child's user context is the parent's trap frame
\* with return register 0, the stack pointer replaced only when a stack
\* argument is given, and the instruction pointer advanced by 4 on riscv64
\* and loongarch64 and unchanged on x86_64 and aarch64.
C25_CloneChildContext ==
    /\ []CloneReturnsChildId
    /\ [][CloneMakesChildContext /\ CloneChildStartsThere]_vars
\* A clone without a stack on loongarch64: the child has the parent's stack
\* pointer and the next instruction, the parent has the child's id.
C25_Witness ==
    \E t \in Tasks :
        /\ CloneReturned(t) /\ arch = "loongarch64" /\ cur[t].a1 = 0
        /\ uctx[new_task[t]] = [ip |-> tf[t].ip + InsnLen, sp |-> tf[t].sp, rv |-> 0]
        /\ result[t] = Ok(new_task[t])

\* Task t has called clone_task and clone_task is over: it returned, or the
\* kernel task panicked inside it.
CloneOver(t) ==
    /\ cur[t].sys = "clone"
    /\ \/ pc[t] = "ret"
       \/ pc[t] = "handler" /\ panicked
\* C29: clone_task returns to its caller for every flags value, with a new
\* task id or an error; flags with unknown bits give an error return and no
\* task, never an abort of the calling kernel task.
C29_CloneAlwaysReturns ==
    \A t \in Tasks :
        CloneOver(t) =>
            /\ ~panicked
            /\ pc[t] = "ret"
            /\ result[t].ok \/ result[t].err \in {"EINVAL", "ENOMEM"}
            /\ ~CloneFlagsKnown(cur[t].a0) =>
                   /\ result[t] = Err("EINVAL")
                   /\ next_id = FirstUserId + 1

\* The signals the per-signal operations address.
PerSignal == 1..(SignalLimit - 1)
\* What add, remove and has answered, against the bit of the signal before
\* and after the call.
SigAnswers ==
    LET s == sig_ret.arg
        was == (s - 1) \in sig_ret.before.bits[1]
        is == (s - 1) \in sigset.bits[1]
    IN  /\ sig_ret.op = "add" =>
              /\ sig_ret.ret.some <=> (s \in PerSignal /\ ~was /\ is)
              /\ s \in PerSignal => is
        /\ sig_ret.op = "remove" =>
              /\ sig_ret.ret.some <=> (s \in PerSignal /\ was /\ ~is)
              /\ s \in PerSignal => ~is
        /\ sig_ret.op = "has" =>
              sig_ret.ret.some <=> (s \in PerSignal /\ was)
\* Signal 0 and the signals from 32 on: nothing is changed, the answer is
\* false.
SigOutOfRange ==
    (sig_ret.op \in {"add", "remove", "has"} /\ sig_ret.arg \notin PerSignal) =>
        /\ ~sig_ret.ret.some
        /\ sigset = sig_ret.before

\* C26: add(sig) returns true exactly when sig is in 1..31 and its bit went
\* from 0 to 1, remove(sig) exactly when sig is in 1..31 and its bit went
\* from 1 to 0; for sig = 0 or sig >= 32 both return false, has(sig) is
\* false and the set is unchanged.
C26_PerSignalAnswers == SigAnswers /\ SigOutOfRange
\* remove(32) on a set whose bit 31 is set (by add_from) has answered false
\* and left the bit.
C26_Witness ==
    /\ sig_ret.op = "remove" /\ sig_ret.arg = SignalLimit
    /\ ~sig_ret.ret.some
    /\ (SignalLimit - 1) \in sigset.bits[1]
    /\ sigset = sig_ret.before

\* C27: on any content reachable through add, remove, add_from, remove_from
\* and set_signal_mask, dequeue returns only a signal the per-signal
\* operations address (1..31), one that has() held before the call and does
\* not hold after it.
C27_DequeueAddressable ==
    (sig_ret.op = "dequeue" /\ sig_ret.ret.some) =>
        /\ sig_ret.ret.val \in PerSignal
        /\ has(sig_ret.before, sig_ret.ret.val)
        /\ ~has(sigset, sig_ret.ret.val)

\* C28: a task that runs in user mode, where its next syscall trap enters,
\* has its accounting side at USER: after a trap return, after a successful
\* exec and when a cloned or spawned task first enters user mode; so the
\* trap's switch charges user time only to user_ns.
C28_TrapEntersOnUserSide ==
    \A t \in Tasks : pc[t] = "user" => time[t].side = "USER"

====
